---- MODULE Spec2Model ----
(***************************************************************************)
(* Verification model of the gooze mutation-testing pipeline.              *)
(*                                                                         *)
(* The module holds one specification per component:                       *)
(*   SpecShard   workflow.ShardMutations and the streamer's ShardMutations,*)
(*               run once per shard index over one input                   *)
(*   SpecStream  mutationStreamer.Get followed by ShardMutations, run twice*)
(*   SpecOrch    orchestrator.TestMutation for one mutation                *)
(*   SpecTest    workflow.Test / TestReports / processMutation worker pool *)
(*   SpecScore   mutationScoreFromReports over a reports spill, and the    *)
(*               display of the score                                      *)
(*   SpecMutagen mutagen.StreamMutations: its goroutine, the producer of   *)
(*               sources, the consumer of mutations and the cancellation   *)
(*               (SpecMutagenFair adds weak fairness of the goroutine)     *)
(*   SpecFilter  the goroutine of mutationStreamer.ShardMutations with its *)
(*               producer, consumer and cancellation (SpecFilterFair adds  *)
(*               weak fairness of the goroutine)                           *)
(*   SpecCache   consecutive runs of workflow.Test over one unchanged tree *)
(*               and one reports directory                                 *)
(*   SpecMerge   workflow.Merge over a base directory to which the shard   *)
(*               directories are added in any grouping and order           *)
(*   SpecSpill   a FileSpill of structs with its writers calling Append and*)
(*               AppendBatch, a reader calling Range, and Get and Close    *)
(*   SpecFlag    parseShardFlag over every short string of the --shard flag*)
(*   SpecTui     TUI.Start, Close and Wait with the UI program, the user   *)
(*               and the cancellation (SpecTuiFair adds weak fairness of   *)
(*               Close, Wait and the program)                              *)
(*   SpecUi      workflow.Estimate, workflowPipeline.Estimate, Test and    *)
(*               View as the calls of Start, Wait and Close they make      *)
(*   SpecPipe    workflowPipeline.collectMutations as Estimate calls it:   *)
(*               the upstream stages, generateMutationsChannel, the        *)
(*               goroutine of mergeErrorChannels and the two goroutines of *)
(*               collectMutations (SpecPipeFair adds weak fairness of      *)
(*               every goroutine)                                          *)
(*   SpecBranch  collectMutations with GenerateBranchMutations over one source*)
(*               of a few functions and ignore directives (SpecBranchFar: no*)
(*               directive, the functions up to a kilobyte apart)          *)
(* Every specification leaves the variables of the other components at     *)
(* their idle values.                                                      *)
(***************************************************************************)
EXTENDS Integers, Sequences, FiniteSets, TLC

VARIABLES
    \* ---- sharding (SpecShard, SpecStream)
    allMutations,     \* the input handed to ShardMutations (sequence of mutation IDs)
    sha,              \* SHA-256 prefix of each mutation ID, as hashed by workflow.ShardMutations
    totalShardCount,  \* TestArgs.TotalShardCount
    shardIndex,       \* TestArgs.ShardIndex (SpecStream)
    wfShards,         \* shard index -> output of workflow.ShardMutations
    stShards,         \* shard index -> mutations received from mutationStreamer.ShardMutations
    stCancelled,      \* a streamer run was cut short by ctx.Done()
    srcHash,          \* path -> Origin.Hash of the discovered sources
    genResult,        \* content hash -> what GenerateMutation yields for that content
    getCh,            \* what a finished Get goroutine put on its channel: <<>> or <<[enum, out, complete]>>
    streamRuns        \* finished runs of Get |> ShardMutations: [enum, out, complete]

shardVars == <<allMutations, sha, totalShardCount, shardIndex, wfShards, stShards,
               stCancelled, srcHash, genResult, getCh, streamRuns>>

VARIABLES
    \* ---- orchestrator.TestMutation (SpecOrch)
    mutation,         \* [hasOrigin, hasTest]: Source.Origin # nil, Source.Test # nil
    ctxDone,          \* ctx.Err() # nil
    cancelPhase,      \* when ctx was cancelled: never, pre, setup, wait, after
    orchPc,           \* position inside TestMutation
    tmpDir,           \* the tmpDir returned by prepareWorkspace ("" when none)
    deferCleanup,     \* defer to.cleanupTempDir(ctx, tmpDir) is registered
    wsExists,         \* the temporary directory exists on disk
    wsCreated,        \* CreateTempDir succeeded during this call
    fileWritten,      \* WriteFile of the mutated code succeeded
    runner,           \* none, running, exit0 (testErr = nil), exitErr (testErr # nil)
    cleanupRan,       \* cleanupTempDir has called RemoveAll
    removeFailed,     \* RemoveAll returned an error
    orchResult,       \* the m.Result returned: a sequence of entries, <<>> for m.Result{}
    orchErr           \* the error returned: "nil" or the wrapped failure

orchVars == <<mutation, ctxDone, cancelPhase, orchPc, tmpDir, deferCleanup, wsExists,
              wsCreated, fileWritten, runner, cleanupRan, removeFailed, orchResult, orchErr>>

VARIABLES
    \* ---- workflow.Test, TestReports, processMutation (SpecTest)
    shardSize,        \* len(shardMutations): the mutations are 1..shardSize
    threads,          \* TestArgs.Threads
    testPc,           \* position inside Test: ui, info, upcoming, spawn (the loop of TestReports),
                      \* score, save, close, index, closeUI, returned
    nextMut,          \* the mutation the loop of TestReports hands to group.Go next
    wpc,              \* mutation -> position of its processMutation goroutine
    wResult,          \* mutation -> the m.Result TestMutationWithTimeout returned to its goroutine
    threadID,         \* mutation -> the thread ID its goroutine displays
    threadIDCounter,  \* the shared int32 counter
    reportsMutex,     \* 0 when unlocked, else the mutation whose goroutine holds it
    reports,          \* the reports spill: sequence of [mut, result, diff]
    errors,           \* the errors slice
    groupErr,         \* the first error a goroutine returned to the errgroup
    testRet,          \* the error Test returns
    saved,            \* SaveSpillReports succeeded
    indexRegenerated, \* RegenerateIndex succeeded
    appendFailed,     \* some Append on the reports spill failed
    persistFailed,    \* scoring, saving, closing or indexing failed
    uiEvents,         \* the calls the progress sink received: sequence of [ev, mut]
    handed,           \* mutation -> number of TestMutationWithTimeout calls made for it
    workspaceOf       \* mutation -> the temp dir of its TestMutation call in flight, 0 when none

testVars == <<shardSize, threads, testPc, nextMut, wpc, wResult, threadID, threadIDCounter,
              reportsMutex, reports, errors, groupErr, testRet, saved, indexRegenerated,
              appendFailed, persistFailed, uiEvents, handed, workspaceOf>>

VARIABLES
    \* ---- mutation score (SpecScore)
    spill,            \* the reports spill: a sequence of reports, each the sequence of its entries' statuses
    scorePc,          \* "idle", "fill", "scored", "displayed", "returned"
    score,            \* the float64 returned by mutationScoreFromReports, as the fraction num/den
    scoreErr,         \* the error returned by mutationScoreFromReports
    displayed         \* the percentage printed by DisplayMutationScore, as a fraction

scoreVars == <<spill, scorePc, score, scoreErr, displayed>>

VARIABLES
    \* ---- mutagen.StreamMutations (SpecMutagen)
    mgTypesOk,        \* validateConfig accepts the mutation types and the adapters
    mgBufferSize,     \* capacity of mutationCh
    mgCtxDone,        \* ctx has been cancelled
    mgPc,             \* position of the goroutine
    sourcesCh,        \* the input channel: sources sent and not yet received
    sourcesClosed,    \* the producer has closed the input channel
    produced,         \* number of sources the producer has sent
    cur,              \* the source being processed: "valid", "invalid", "unparsable" or "none"
    pending,          \* mutations of the current source still to be sent
    mutationCh,       \* number of mutations buffered in mutationCh
    mutationChClosed, \* close(mutationCh) has run
    errCh,            \* errors buffered in errCh
    errChClosed,      \* close(errCh) has run
    errSent,          \* number of sends on errCh
    mgCause,          \* the failure the goroutine has met, or "none"
    mgWake            \* the goroutine, blocked in the select of sendMutations, was woken by ctx.Done()

mgVars == <<mgTypesOk, mgBufferSize, mgCtxDone, mgPc, sourcesCh, sourcesClosed, produced,
            cur, pending, mutationCh, mutationChClosed, errCh, errChClosed, errSent,
            mgCause, mgWake>>

VARIABLES
    \* ---- the goroutine of mutationStreamer.ShardMutations (SpecFilter)
    fsTotal,          \* totalShardCount
    fsShard,          \* shardIndex
    fsBufferSize,     \* capacity of the returned channel
    fsCtxDone,        \* ctx has been cancelled
    fsPc,             \* position of the goroutine
    inCh,             \* the input channel: mutations sent and not yet received
    inClosed,         \* the producer has closed the input channel
    inSent,           \* number of mutations the producer has sent
    fsIndex,          \* the round-robin counter of filterMutationsByShard
    outCh,            \* number of mutations buffered in the returned channel
    outClosed,        \* close(ch) has run
    fsWake            \* the goroutine, blocked in a send, was woken by ctx.Done()

fsVars == <<fsTotal, fsShard, fsBufferSize, fsCtxDone, fsPc, inCh, inClosed, inSent, fsIndex,
            outCh, outClosed, fsWake>>

VARIABLES
    \* ---- consecutive runs of workflow.Test (SpecCache)
    useCache,         \* EstimateArgs.UseCache
    cHash,            \* path -> Origin.Hash of the sources of the tree
    cMuts,            \* path -> number of mutations GenerateMutation yields for the source
    cPc,              \* position inside Test: get, test, score, save, done
    cMutations,       \* the mutations of this run: the hash of the source of each
    cSpill,           \* the spill TestReports fills in this run: [hash, result]
    cScore,           \* the score computed in this run
    cDir,             \* the reports kept in the reports directory: [hash, result]
    cIndex,           \* the index of the reports directory: the source hashes it holds
    cRuns             \* finished runs: [score, appended]

cacheVars == <<useCache, cHash, cMuts, cPc, cMutations, cSpill, cScore, cDir, cIndex, cRuns>>

VARIABLES
    \* ---- workflow.Merge (SpecMerge)
    mBase0,           \* the reports in the base directory before any shard is merged
    mShardLen,        \* shard name -> number of reports in that shard's directory
    mBase,            \* the reports in the base directory
    mPresent,         \* names of the shard_* directories now under the base
    mArrived,         \* names of the shards whose directory has been put under the base
    mPc,              \* position inside Merge: idle, load, save, index, remove
    shardDirs,        \* the sorted list returned by findShardDirs
    merged,           \* the slice built by mergeReports
    mPre,             \* base reports and shard directories at the entry of the last Merge
    mergeErr,         \* what the last Merge returned: "none" before any call, "nil" or an error
    mFailed,          \* some Merge of this run returned an error
    mRun,             \* "first" or "second": both runs merge the same shards into the same base
    mFinals           \* base contents at the end of the runs in which every Merge succeeded

mergeVars == <<mBase0, mShardLen, mBase, mPresent, mArrived, mPc, shardDirs, merged, mPre,
               mergeErr, mFailed, mRun, mFinals>>

VARIABLES
    \* ---- pkg.FileSpill (SpecSpill)
    spFile,           \* the spill file: the sequence of gob messages written to it
    spLength,         \* f.length
    spMu,             \* f.mu: "" when unlocked, else the goroutine holding it
    spClosed,         \* Close has closed f.file
    spQueue,          \* writer -> the items its Append or AppendBatch call has still to append
    spPc,             \* writer -> position inside Append: idle, lock, encode, unlock
    spFailed,         \* writer -> the Append of its current call failed
    spCalls,          \* number of Append calls begun or queued so far
    spAppended,       \* the successful Append calls in order: [writer, item, index, left]
    rPc,              \* position inside Range: idle, loop, returned
    rN,               \* the bound of the loop of Range: f.length when the loop began
    rI,               \* the loop variable i of Range
    rItem,            \* the variable item of Range, into which every message is decoded
    rSeen,            \* the calls of the callback of Range: sequence of [index, item]
    rErr,             \* what Range returned: "none" before it has, "nil" or an error
    rAfterAll,        \* Range took the mutex when every Append call begun had returned
    gGot              \* the Get calls made: set of [index, length, err, item]

spillVars == <<spFile, spLength, spMu, spClosed, spQueue, spPc, spFailed, spCalls,
               spAppended, rPc, rN, rI, rItem, rSeen, rErr, rAfterAll, gGot>>

VARIABLES
    \* ---- parseShardFlag (SpecFlag)
    shardFlag,        \* the value of the --shard flag: a sequence of characters
    flagPc,           \* "call" before parseShardFlag has run, "returned" after
    flagIndex,        \* the index parseShardFlag returned
    flagTotal         \* the total parseShardFlag returned

flagVars == <<shardFlag, flagPc, flagIndex, flagTotal>>

VARIABLES
    \* ---- controller.TUI (SpecTui)
    tStarted,         \* t.started
    tClosed,          \* t.closed
    tCtxDone,         \* the context handed to Start, Close and Wait is cancelled
    tDone,            \* the channel t.done is closed: program.Run has returned
    tQuit,            \* a tea.Quit message sent to the program and not yet handled
    tClosePc,         \* position inside Close: idle, recv
    tCloses,          \* number of Close calls that have returned
    tSkipped,         \* a Close returned at its ctx.Err() check
    tWaitPc           \* position inside Wait: idle, select, drain, returned

tuiVars == <<tStarted, tClosed, tCtxDone, tDone, tQuit, tClosePc, tCloses, tSkipped,
             tWaitPc>>

VARIABLES
    \* ---- the UI calls of Estimate, Test and View (SpecUi)
    uiOp,             \* the operation running: Estimate, PipelineEstimate, Test or View ("" when none)
    uiPc,             \* position inside it: idle, start, steps, wait, close, return
    uiStep,           \* the fallible call the operation is at, an index of Steps(uiOp)
    uiCalls,          \* Start, Wait and Close as the operation called them on the progress sink
    uiRet,            \* the error the operation returns ("nil" when none)
    uiReturns         \* the operations that returned: [op, calls, ret]

uiVars == <<uiOp, uiPc, uiStep, uiCalls, uiRet, uiReturns>>

VARIABLES
    \* ---- workflowPipeline.collectMutations and its stages (SpecPipe)
    plUpLeft,         \* sources the upstream stages have still to send
    plSources,        \* sources buffered in changedSourcesChannel
    plSourcesClosed,  \* changedSourcesChannel is closed
    plUpErr,          \* the upstream error channel: open, err (an error is buffered), closed
    plGenErr,         \* errorChannel of generateMutationsChannel: open, err, closed
    plMerged,         \* the channel of mergeErrorChannels: open, err, closed
    plCh1Nil,         \* mergeErrorChannels has set ch1 (upstream) to nil
    plCh2Nil,         \* mergeErrorChannels has set ch2 (generation) to nil
    plDispatch,       \* the goroutine of generateMutationsChannel: select, go, done
    plWorker,         \* the group.Go worker: idle, generate, send
    plToSend,         \* mutations the worker has still to send
    plGroupErr,       \* the first error of the workers' errgroup ("nil" when none)
    plMutations,      \* mutations buffered in mutationsChannel
    plMutClosed,      \* mutationsChannel is closed
    plCollector,      \* the collecting goroutine: run, nil, cancelled
    plCollected,      \* len(allMutations)
    plMonitor,        \* the error monitor: run, nil, err
    plCtxDone,        \* groupCtx is cancelled
    plRet             \* what collectMutations returned: "" (not yet), nil or the error

pipeVars == <<plUpLeft, plSources, plSourcesClosed, plUpErr, plGenErr, plMerged, plCh1Nil,
              plCh2Nil, plDispatch, plWorker, plToSend, plGroupErr, plMutations,
              plMutClosed, plCollector, plCollected, plMonitor, plCtxDone, plRet>>

VARIABLES
    \* ---- GenerateMutation for the branch type (SpecBranch, SpecBranchFar)
    brSource,         \* the parsed source: its functions' statements and its ignore directives
    brPc,             \* position of the run: parsed, then done
    brOut             \* the mutations collectMutations returned

branchVars == <<brSource, brPc, brOut>>

vars == <<shardVars, orchVars, testVars, scoreVars, mgVars, fsVars, cacheVars, mergeVars, spillVars, flagVars, tuiVars, uiVars, pipeVars, branchVars>>

\* what the actions of one component leave alone
othersOfShard == <<orchVars, testVars, scoreVars, mgVars, fsVars, cacheVars, mergeVars, spillVars, flagVars, tuiVars, uiVars, pipeVars, branchVars>>
othersOfOrch == <<shardVars, testVars, scoreVars, mgVars, fsVars, cacheVars, mergeVars, spillVars, flagVars, tuiVars, uiVars, pipeVars, branchVars>>
othersOfTest == <<shardVars, orchVars, scoreVars, mgVars, fsVars, cacheVars, mergeVars, spillVars, flagVars, tuiVars, uiVars, pipeVars, branchVars>>
othersOfScore == <<shardVars, orchVars, testVars, mgVars, fsVars, cacheVars, mergeVars, spillVars, flagVars, tuiVars, uiVars, pipeVars, branchVars>>
othersOfMutagen == <<shardVars, orchVars, testVars, scoreVars, fsVars, cacheVars, mergeVars, spillVars, flagVars, tuiVars, uiVars, pipeVars, branchVars>>
othersOfFilter == <<shardVars, orchVars, testVars, scoreVars, mgVars, cacheVars, mergeVars, spillVars, flagVars, tuiVars, uiVars, pipeVars, branchVars>>
othersOfCache == <<shardVars, orchVars, testVars, scoreVars, mgVars, fsVars, mergeVars, spillVars, flagVars, tuiVars, uiVars, pipeVars, branchVars>>
othersOfMerge == <<shardVars, orchVars, testVars, scoreVars, mgVars, fsVars, cacheVars, spillVars, flagVars, tuiVars, uiVars, pipeVars, branchVars>>
othersOfSpill == <<shardVars, orchVars, testVars, scoreVars, mgVars, fsVars, cacheVars, mergeVars, flagVars, tuiVars, uiVars, pipeVars, branchVars>>
othersOfFlag == <<shardVars, orchVars, testVars, scoreVars, mgVars, fsVars, cacheVars, mergeVars, spillVars, tuiVars, uiVars, pipeVars, branchVars>>
othersOfTui == <<shardVars, orchVars, testVars, scoreVars, mgVars, fsVars, cacheVars, mergeVars, spillVars, flagVars, uiVars, pipeVars, branchVars>>
othersOfUi == <<shardVars, orchVars, testVars, scoreVars, mgVars, fsVars, cacheVars, mergeVars, spillVars, flagVars, tuiVars, pipeVars, branchVars>>
othersOfPipe == <<shardVars, orchVars, testVars, scoreVars, mgVars, fsVars, cacheVars, mergeVars, spillVars, flagVars, tuiVars, uiVars, branchVars>>
othersOfBranch == <<shardVars, orchVars, testVars, scoreVars, mgVars, fsVars, cacheVars, mergeVars, spillVars, flagVars, tuiVars, uiVars, pipeVars>>

\* ------------------------------------------------------------------ bounds
MaxMutations == 3      \* longest input sequence of SpecShard
MaxShards == 3         \* largest total shard count
MaxHashPrefix == 2     \* SHA-256 prefixes are drawn from 0..MaxHashPrefix
MaxMutPerSource == 2   \* most mutations GenerateMutation yields for one source

MutationIDs == {"m1", "m2", "m3"}
Paths == {"a.go", "b.go"}
HashValues == {1, 2}

\* ------------------------------------------------------------------ helpers
Min(a, b) == IF a < b THEN a ELSE b

Count(seq, x) == Cardinality({i \in 1..Len(seq) : seq[i] = x})

Range(seq) == {seq[i] : i \in 1..Len(seq)}

SeqsUpTo(S, n) == UNION {[1..k -> S] : k \in 0..n}

Perms(S) == {f \in [1..Cardinality(S) -> S] : \A i, j \in DOMAIN f : f[i] = f[j] => i = j}

RECURSIVE SumOver(_, _, _)
\* sum of Count(f[k], x) over k in ks
SumOver(f, ks, x) ==
    IF ks = {} THEN 0
    ELSE LET k == CHOOSE q \in ks : TRUE
         IN Count(f[k], x) + SumOver(f, ks \ {k}, x)

\* ------------------------------------------------------------------ workflow.ShardMutations
\* int(h[0])<<24 + int(h[1])<<16 + int(h[2])<<8 + int(h[3]), then made non-negative
HashValue(mu) ==
    LET hashValue == sha[mu]
    IN IF hashValue < 0 THEN -hashValue ELSE hashValue

ShardMutationsLe(all, index, total) ==
    IF total <= 0 THEN all
    ELSE SelectSeq(all, LAMBDA mu : HashValue(mu) % total <= index)

ShardMutations(all, index, total) ==
    IF total <= 0 THEN all
    ELSE SelectSeq(all, LAMBDA mu : HashValue(mu) % total = index)

\* ------------------------------------------------------------------ mutationStreamer.ShardMutations
\* `budget` is the number of loop iterations the goroutine completes before a
\* select observes ctx.Done(); Len(in) or more means the input was drained.
PassThroughMutations(in, budget) == SubSeq(in, 1, Min(budget, Len(in)))

RECURSIVE FilterLoopDiv(_, _, _, _, _)
FilterLoopDiv(in, index, shard, total, budget) ==
    IF in = <<>> \/ budget = 0 THEN <<>>
    ELSE (IF index \div total = shard THEN <<Head(in)>> ELSE <<>>)
         \o FilterLoopDiv(Tail(in), index + 1, shard, total, budget - 1)

FilterMutationsByShardDiv(in, shard, total, budget) ==
    FilterLoopDiv(in, 0, shard, total, budget)

RECURSIVE FilterLoop(_, _, _, _, _)
FilterLoop(in, index, shard, total, budget) ==
    IF in = <<>> \/ budget = 0 THEN <<>>
    ELSE (IF index % total = shard THEN <<Head(in)>> ELSE <<>>)
         \o FilterLoop(Tail(in), index + 1, shard, total, budget - 1)

FilterMutationsByShard(in, shard, total, budget) ==
    FilterLoop(in, 0, shard, total, budget)

StreamerShardMutations(in, shard, total, budget) ==
    IF total <= 0 THEN PassThroughMutations(in, budget)
    ELSE FilterMutationsByShard(in, shard, total, budget)

\* ------------------------------------------------------------------ idle values
ShardIdle ==
    /\ allMutations = <<>>
    /\ sha = <<>>
    /\ totalShardCount = 1
    /\ shardIndex = 0
    /\ wfShards = <<>>
    /\ stShards = <<>>
    /\ stCancelled = FALSE
    /\ srcHash = <<>>
    /\ genResult = <<>>
    /\ getCh = <<>>
    /\ streamRuns = <<>>

OrchIdle ==
    /\ mutation = [hasOrigin |-> TRUE, hasTest |-> TRUE]
    /\ ctxDone = FALSE
    /\ cancelPhase = "never"
    /\ orchPc = "idle"
    /\ tmpDir = ""
    /\ deferCleanup = FALSE
    /\ wsExists = FALSE
    /\ wsCreated = FALSE
    /\ fileWritten = FALSE
    /\ runner = "none"
    /\ cleanupRan = FALSE
    /\ removeFailed = FALSE
    /\ orchResult = <<>>
    /\ orchErr = "nil"

TestIdle ==
    /\ shardSize = 0
    /\ threads = 1
    /\ testPc = "idle"
    /\ nextMut = 1
    /\ wpc = <<>>
    /\ wResult = <<>>
    /\ threadID = <<>>
    /\ threadIDCounter = -1
    /\ reportsMutex = 0
    /\ reports = <<>>
    /\ errors = <<>>
    /\ groupErr = "nil"
    /\ testRet = "nil"
    /\ saved = FALSE
    /\ indexRegenerated = FALSE
    /\ appendFailed = FALSE
    /\ persistFailed = FALSE
    /\ uiEvents = <<>>
    /\ handed = <<>>
    /\ workspaceOf = <<>>

ScoreIdle ==
    /\ spill = <<>>
    /\ scorePc = "idle"
    /\ score = [num |-> 0, den |-> 1]
    /\ scoreErr = "nil"
    /\ displayed = [num |-> 0, den |-> 1]

MutagenIdle ==
    /\ mgTypesOk = TRUE
    /\ mgBufferSize = 1
    /\ mgCtxDone = FALSE
    /\ mgPc = "idle"
    /\ sourcesCh = <<>>
    /\ sourcesClosed = FALSE
    /\ produced = 0
    /\ cur = "none"
    /\ pending = 0
    /\ mutationCh = 0
    /\ mutationChClosed = FALSE
    /\ errCh = <<>>
    /\ errChClosed = FALSE
    /\ errSent = 0
    /\ mgCause = "none"
    /\ mgWake = FALSE

FilterIdle ==
    /\ fsTotal = 1
    /\ fsShard = 0
    /\ fsBufferSize = 1
    /\ fsCtxDone = FALSE
    /\ fsPc = "idle"
    /\ inCh = <<>>
    /\ inClosed = FALSE
    /\ inSent = 0
    /\ fsIndex = 0
    /\ outCh = 0
    /\ outClosed = FALSE
    /\ fsWake = FALSE

CacheIdle ==
    /\ useCache = FALSE
    /\ cHash = <<>>
    /\ cMuts = <<>>
    /\ cPc = "idle"
    /\ cMutations = <<>>
    /\ cSpill = <<>>
    /\ cScore = [num |-> 0, den |-> 1]
    /\ cDir = <<>>
    /\ cIndex = {}
    /\ cRuns = <<>>

MergeIdle ==
    /\ mBase0 = <<>>
    /\ mShardLen = <<>>
    /\ mBase = <<>>
    /\ mPresent = {}
    /\ mArrived = {}
    /\ mPc = "idle"
    /\ shardDirs = <<>>
    /\ merged = <<>>
    /\ mPre = [base |-> <<>>, present |-> {}]
    /\ mergeErr = "none"
    /\ mFailed = FALSE
    /\ mRun = "none"
    /\ mFinals = {}

SpillIdle ==
    /\ spFile = <<>>
    /\ spLength = 0
    /\ spMu = ""
    /\ spClosed = FALSE
    /\ spQueue = <<>>
    /\ spPc = <<>>
    /\ spFailed = <<>>
    /\ spCalls = 0
    /\ spAppended = <<>>
    /\ rPc = "idle"
    /\ rN = 0
    /\ rI = 0
    /\ rItem = <<>>
    /\ rSeen = <<>>
    /\ rErr = "none"
    /\ rAfterAll = FALSE
    /\ gGot = {}

FlagIdle ==
    /\ shardFlag = <<>>
    /\ flagPc = "idle"
    /\ flagIndex = 0
    /\ flagTotal = 1

TuiIdle ==
    /\ tStarted = FALSE
    /\ tClosed = FALSE
    /\ tCtxDone = FALSE
    /\ tDone = FALSE
    /\ tQuit = FALSE
    /\ tClosePc = "idle"
    /\ tCloses = 0
    /\ tSkipped = FALSE
    /\ tWaitPc = "idle"

UiIdle ==
    /\ uiOp = ""
    /\ uiPc = "idle"
    /\ uiStep = 0
    /\ uiCalls = <<>>
    /\ uiRet = "nil"
    /\ uiReturns = <<>>

PipeIdle ==
    /\ plUpLeft = 0
    /\ plSources = 0
    /\ plSourcesClosed = FALSE
    /\ plUpErr = "open"
    /\ plGenErr = "open"
    /\ plMerged = "open"
    /\ plCh1Nil = FALSE
    /\ plCh2Nil = FALSE
    /\ plDispatch = "select"
    /\ plWorker = "idle"
    /\ plToSend = 0
    /\ plGroupErr = "nil"
    /\ plMutations = 0
    /\ plMutClosed = FALSE
    /\ plCollector = "run"
    /\ plCollected = 0
    /\ plMonitor = "run"
    /\ plCtxDone = FALSE
    /\ plRet = ""

BranchIdle ==
    /\ brSource = [funcs |-> <<>>]
    /\ brPc = "done"
    /\ brOut = <<>>

\* ------------------------------------------------------------------ SpecShard
ShardIndices == 0..(totalShardCount - 1)

InitShard ==
    /\ BranchIdle
    /\ PipeIdle
    /\ UiIdle
    /\ TuiIdle
    /\ FlagIdle
    /\ SpillIdle
    /\ MergeIdle
    /\ allMutations \in SeqsUpTo(MutationIDs, MaxMutations)
    /\ sha \in [MutationIDs -> 0..MaxHashPrefix]
    /\ totalShardCount \in 1..MaxShards
    /\ shardIndex = 0
    /\ wfShards = <<>>
    /\ stShards = <<>>
    /\ stCancelled = FALSE
    /\ srcHash = <<>>
    /\ genResult = <<>>
    /\ getCh = <<>>
    /\ streamRuns = <<>>
    /\ OrchIdle
    /\ TestIdle
    /\ ScoreIdle
    /\ MutagenIdle
    /\ FilterIdle
    /\ CacheIdle

\* One run of workflow.Test's sharding step, for the next shard index.
WorkflowShardRun ==
    /\ \E k \in ShardIndices :
        /\ k \notin DOMAIN wfShards
        /\ \A j \in 0..(k - 1) : j \in DOMAIN wfShards
        /\ wfShards' = wfShards @@ (k :> ShardMutations(allMutations, k, totalShardCount))
    /\ UNCHANGED <<allMutations, sha, totalShardCount, shardIndex, stShards, stCancelled,
                   srcHash, genResult, getCh, streamRuns, othersOfShard>>

\* One run of mutationStreamer.ShardMutations over a channel holding allMutations,
\* for the next shard index; the consumer reads the output until it is closed.
StreamerShardRun ==
    /\ ~stCancelled
    /\ \E k \in ShardIndices, budget \in 0..Len(allMutations) :
        /\ k \notin DOMAIN stShards
        /\ \A j \in 0..(k - 1) : j \in DOMAIN stShards
        /\ stShards' = stShards @@
               (k :> StreamerShardMutations(allMutations, k, totalShardCount, budget))
        /\ stCancelled' = (budget < Len(allMutations))
    /\ UNCHANGED <<allMutations, sha, totalShardCount, shardIndex, wfShards,
                   srcHash, genResult, getCh, streamRuns, othersOfShard>>

NextShard == WorkflowShardRun \/ StreamerShardRun

SpecShard == InitShard /\ [][NextShard]_vars

\* C1: Shard partition. Once ShardMutations has been run for every shard index
\* 0..T-1 over the same input, every mutant occurs in the outputs, taken
\* together, exactly as often as in the input (workflow.ShardMutations, and
\* mutationStreamer.ShardMutations when no run was cancelled).
C1_ShardPartition ==
    /\ DOMAIN wfShards = ShardIndices =>
          \A mu \in MutationIDs :
              SumOver(wfShards, ShardIndices, mu) = Count(allMutations, mu)
    /\ (DOMAIN stShards = ShardIndices /\ ~stCancelled) =>
          \A mu \in MutationIDs :
              SumOver(stShards, ShardIndices, mu) = Count(allMutations, mu)

C1_Witness ==
    /\ DOMAIN wfShards = ShardIndices
    /\ DOMAIN stShards = ShardIndices
    /\ ~stCancelled
    /\ totalShardCount = MaxShards
    /\ Len(allMutations) = MaxMutations
    /\ \E i, j \in DOMAIN allMutations : i # j /\ allMutations[i] = allMutations[j]
    /\ \E k \in ShardIndices : Len(wfShards[k]) >= 2

Balanced(f) == \A i, j \in DOMAIN f : Len(f[i]) - Len(f[j]) <= 1

\* C10 (as stated): the shard sizes differ by at most one, for both ShardMutations.
C10_BalancedShardsAll ==
    /\ DOMAIN wfShards = ShardIndices => Balanced(wfShards)
    /\ (DOMAIN stShards = ShardIndices /\ ~stCancelled) => Balanced(stShards)

\* C10 (amended): the sizes of the shards emitted by mutationStreamer.ShardMutations
\* (round-robin by arrival position) for shard indices 0..T-1 differ by at most
\* one when no run is cancelled; workflow.ShardMutations (hash of the ID) only
\* preserves the total.
C10_BalancedShards ==
    (DOMAIN stShards = ShardIndices /\ ~stCancelled) => Balanced(stShards)

C10_Witness ==
    /\ DOMAIN stShards = ShardIndices
    /\ ~stCancelled
    /\ totalShardCount = 2
    /\ Len(allMutations) = 3
    /\ Len(stShards[0]) = 2
    /\ Len(stShards[1]) = 1

\* ------------------------------------------------------------------ mutationStreamer.Get
\* sort.Slice on at most 12 elements is an insertion sort: an element moves left
\* while less(it, the one before it) holds, so elements with equal keys keep the
\* order in which SourceFSAdapter.Get returned them.
LessByHash(a, b) == srcHash[a] < srcHash[b]

RECURSIVE InsertSource(_, _)
InsertSource(sorted, x) ==
    IF sorted = <<>> THEN <<x>>
    ELSE LET last == sorted[Len(sorted)]
         IN IF LessByHash(x, last)
            THEN Append(InsertSource(SubSeq(sorted, 1, Len(sorted) - 1), x), last)
            ELSE Append(sorted, x)

RECURSIVE SortSources(_)
SortSources(sources) ==
    IF sources = <<>> THEN <<>>
    ELSE InsertSource(SortSources(SubSeq(sources, 1, Len(sources) - 1)),
                      sources[Len(sources)])

\* GenerateMutation(source): the IDs hash the origin path and the anchor offset,
\* so a mutation is named by its path and its position in the source.
GenerateMutation(source) ==
    LET res == genResult[srcHash[source]]
    IN [mutations |-> [j \in 1..res.n |-> <<source, j>>], err |-> res.err]

RECURSIVE ProcessSourcesSkip(_)
\* goes on with the next source after a failed generation
ProcessSourcesSkip(sources) ==
    IF sources = <<>> THEN [out |-> <<>>, ok |-> TRUE]
    ELSE LET gen == GenerateMutation(Head(sources))
             rest == ProcessSourcesSkip(Tail(sources))
         IN IF gen.err THEN [out |-> rest.out, ok |-> FALSE]
            ELSE [out |-> gen.mutations \o rest.out, ok |-> rest.ok]

RECURSIVE ProcessSources(_)
\* the loop over the sorted sources: [out, ok]; a failed generation stops it
ProcessSources(sources) ==
    IF sources = <<>> THEN [out |-> <<>>, ok |-> TRUE]
    ELSE LET gen == GenerateMutation(Head(sources))
         IN IF gen.err THEN [out |-> <<>>, ok |-> FALSE]
            ELSE LET rest == ProcessSources(Tail(sources))
                 IN [out |-> gen.mutations \o rest.out, ok |-> rest.ok]

\* What the channel returned by Get carries until it is closed. `discovered` is
\* the outcome of SourceFSAdapter.Get, `budget` the number of sends completed
\* before ctx.Done() is observed.
\* The consumer is handed the channel alone: besides `out` it can read ctx.Err()
\* once the channel is closed (ctxErr); genFailed records that processSource
\* met a GenerateMutation error, which is logged and returned as `false`.
Get(enum, discovered, budget) ==
    IF ~discovered
    THEN [out |-> <<>>, complete |-> FALSE, genFailed |-> FALSE, ctxErr |-> "nil"]
    ELSE LET all == ProcessSources(SortSources(enum))
         IN [out |-> SubSeq(all.out, 1, Min(budget, Len(all.out))),
             complete |-> all.ok /\ budget >= Len(all.out),
             genFailed |-> ~all.ok /\ budget >= Len(all.out),
             ctxErr |-> IF budget < Len(all.out) THEN "context canceled" ELSE "nil"]

\* ------------------------------------------------------------------ SpecStream
MaxRuns == 2

InitStream ==
    /\ BranchIdle
    /\ PipeIdle
    /\ UiIdle
    /\ TuiIdle
    /\ FlagIdle
    /\ SpillIdle
    /\ MergeIdle
    /\ allMutations = <<>>
    /\ sha = <<>>
    /\ totalShardCount \in 1..MaxShards
    /\ shardIndex \in 0..(totalShardCount - 1)
    /\ wfShards = <<>>
    /\ stShards = <<>>
    /\ stCancelled = FALSE
    /\ srcHash \in [Paths -> HashValues]
    /\ genResult \in [HashValues -> {r \in [n : 0..MaxMutPerSource, err : BOOLEAN] :
                                          r.err => r.n = 0}]
    /\ getCh = <<>>
    /\ streamRuns = <<>>
    /\ OrchIdle
    /\ TestIdle
    /\ ScoreIdle
    /\ MutagenIdle
    /\ FilterIdle
    /\ CacheIdle

MaxStream == MaxMutPerSource * Cardinality(Paths)

\* mutationStreamer.Get: the filesystem enumerates the same sources in some order.
StreamerGet ==
    /\ getCh = <<>>
    /\ Len(streamRuns) < MaxRuns
    /\ (\A i \in DOMAIN streamRuns : streamRuns[i].complete)
    /\ \E enum \in Perms(Paths), discovered \in BOOLEAN, budget \in 0..MaxStream :
        LET got == Get(enum, discovered, budget)
        IN /\ (budget > Len(got.out) => budget = MaxStream)
           /\ getCh' = <<[enum |-> enum, out |-> got.out, complete |-> got.complete,
                           genFailed |-> got.genFailed, ctxErr |-> got.ctxErr]>>
    /\ UNCHANGED <<allMutations, sha, totalShardCount, shardIndex, wfShards, stShards,
                   stCancelled, srcHash, genResult, streamRuns, othersOfShard>>

\* mutationStreamer.ShardMutations over the channel returned by Get.
StreamerShard ==
    /\ getCh # <<>>
    /\ LET in == getCh[1]
       IN \E budget \in 0..Len(in.out) :
            /\ (~in.complete => budget = Len(in.out))
            /\ streamRuns' = Append(streamRuns,
                   [enum |-> in.enum,
                    out |-> StreamerShardMutations(in.out, shardIndex, totalShardCount, budget),
                    complete |-> in.complete /\ budget = Len(in.out)])
    /\ getCh' = <<>>
    /\ UNCHANGED <<allMutations, sha, totalShardCount, shardIndex, wfShards, stShards,
                   stCancelled, srcHash, genResult, othersOfShard>>

NextStream == StreamerGet \/ StreamerShard

SpecStream == InitStream /\ [][NextStream]_vars

\* C9: Shard membership is stable. Two complete runs of Get followed by
\* ShardMutations, over the same sources and with the same shard_index and
\* total_shards, emit the same set of mutants whatever the order in which the
\* filesystem enumerated the sources.
C9_StableShardMembership ==
    \A r1, r2 \in DOMAIN streamRuns :
        (streamRuns[r1].complete /\ streamRuns[r2].complete)
            => Range(streamRuns[r1].out) = Range(streamRuns[r2].out)
\* position of a source in the order in which Get processes the sources
PositionIn(sorted, source) == CHOOSE i \in DOMAIN sorted : sorted[i] = source

\* the sources whose generation fails
FailingSources == {p \in Paths : genResult[srcHash[p]].err}

\* C14: Generation failure is reported. When generation failed for a source
\* during Get, the consumer that sees the channel closed has an error to tell
\* the failed run from a run that produced fewer mutants.
C14_GenerationFailureReported ==
    (getCh # <<>> /\ getCh[1].genFailed) => getCh[1].ctxErr # "nil"

\* C15: Generation failure stops the scheduler. When generation failed for a
\* source during Get, the closed channel carried no mutant of that source or of
\* any source processed after it.
C15_GenerationFailureStops ==
    (getCh # <<>> /\ getCh[1].genFailed) =>
        LET sorted == SortSources(getCh[1].enum)
        IN \A k \in DOMAIN getCh[1].out : \A f \in FailingSources :
              PositionIn(sorted, getCh[1].out[k][1]) < PositionIn(sorted, f)

C15_Witness ==
    /\ getCh # <<>>
    /\ getCh[1].genFailed
    /\ getCh[1].out = <<>>
    /\ \E p \in Paths : genResult[srcHash[p]].n > 0

\* ------------------------------------------------------------------ orchestrator.TestMutation
MutationID == "m1"

\* resultForStatus: one entry for the mutation, Err always nil
ResultForStatusOtherID(id, status) == <<[id |-> 0, status |-> status, err |-> "nil"]>>

\* resultForStatus
ResultForStatus(id, status) == <<[id |-> id, status |-> status, err |-> "nil"]>>

ResultForNoTestKilled == ResultForStatus(MutationID, "Killed")

\* resultForNoTest
ResultForNoTest == ResultForStatus(MutationID, "Survived")

RunTestsVerdictSwapped(testErr, ctxErr) ==
    IF testErr THEN (IF ctxErr THEN "Timeout" ELSE "Survived") ELSE "Killed"

\* runTests, after RunGoTest returned: testErr # nil, ctx.Err() # nil
RunTestsVerdict(testErr, ctxErr) ==
    IF testErr THEN (IF ctxErr THEN "Timeout" ELSE "Killed") ELSE "Survived"

PrepareWorkspaceDropsDir(step, ok, dir) ==
    IF ok THEN [tmpDir |-> dir, err |-> "nil"]
    ELSE [tmpDir |-> "", err |-> "failed to " \o step]

\* prepareWorkspace's return (tmpDir, err) when `step` ended with outcome `ok`:
\* only a failed CopyDir returns the directory together with an error.
PrepareWorkspace(step, ok, dir) ==
    IF ok THEN [tmpDir |-> dir, err |-> "nil"]
    ELSE IF step = "copy project" THEN [tmpDir |-> dir, err |-> "failed to " \o step]
    ELSE [tmpDir |-> "", err |-> "failed to " \o step]

\* where TestMutation goes on a return statement: the deferred cleanup, if registered
ExitPc(deferred) == IF deferred THEN "cleanup" ELSE "returned"

WorkspaceErrors == {"failed to find project root", "failed to create temp dir",
                    "failed to copy project", "failed to write mutated file"}

PathErrors == {"failed to get relative source path", "failed to get relative test path"}

InitOrch ==
    /\ BranchIdle
    /\ PipeIdle
    /\ UiIdle
    /\ TuiIdle
    /\ FlagIdle
    /\ SpillIdle
    /\ MergeIdle
    /\ ShardIdle
    /\ TestIdle
    /\ ScoreIdle
    /\ MutagenIdle
    /\ FilterIdle
    /\ CacheIdle
    /\ mutation \in [hasOrigin : BOOLEAN, hasTest : BOOLEAN]
    /\ ctxDone \in BOOLEAN
    /\ cancelPhase = IF ctxDone THEN "pre" ELSE "never"
    /\ orchPc = "start"
    /\ tmpDir = ""
    /\ deferCleanup = FALSE
    /\ wsExists = FALSE
    /\ wsCreated = FALSE
    /\ fileWritten = FALSE
    /\ runner = "none"
    /\ cleanupRan = FALSE
    /\ removeFailed = FALSE
    /\ orchResult = <<>>
    /\ orchErr = "nil"

\* the context is cancelled (by the caller, or by the mutation timeout)
OrchCancel ==
    /\ orchPc \notin {"idle", "returned"}
    /\ ~ctxDone
    /\ ctxDone' = TRUE
    /\ cancelPhase' = CASE orchPc = "start" -> "pre"
                        [] orchPc = "wait" -> "wait"
                        [] orchPc \in {"verdict", "cleanup"} -> "after"
                        [] OTHER -> "setup"
    /\ UNCHANGED <<mutation, orchPc, tmpDir, deferCleanup, wsExists, wsCreated, fileWritten,
                   runner, cleanupRan, removeFailed, orchResult, orchErr, othersOfOrch>>

\* if err := ctx.Err(); err != nil { return resultForStatus(Timeout), nil }
OrchEnter ==
    /\ orchPc = "start"
    /\ IF ctxDone
       THEN /\ orchResult' = ResultForStatus(MutationID, "Timeout")
            /\ orchPc' = "returned"
       ELSE /\ orchPc' = "validate"
            /\ UNCHANGED orchResult
    /\ UNCHANGED <<mutation, ctxDone, cancelPhase, tmpDir, deferCleanup, wsExists, wsCreated,
                   fileWritten, runner, cleanupRan, removeFailed, orchErr, othersOfOrch>>

\* validateMutation, then the no-test short-circuit
OrchValidate ==
    /\ orchPc = "validate"
    /\ IF ~mutation.hasOrigin
       THEN /\ orchErr' = "source origin is nil"
            /\ orchPc' = "returned"
            /\ UNCHANGED orchResult
       ELSE IF ~mutation.hasTest
       THEN /\ orchResult' = ResultForNoTest
            /\ orchPc' = "returned"
            /\ UNCHANGED orchErr
       ELSE /\ orchPc' = "findRoot"
            /\ UNCHANGED <<orchResult, orchErr>>
    /\ UNCHANGED <<mutation, ctxDone, cancelPhase, tmpDir, deferCleanup, wsExists, wsCreated,
                   fileWritten, runner, cleanupRan, removeFailed, othersOfOrch>>

\* TestMutation lines 46-53, once prepareWorkspace has returned `ret`
AfterPrepare(ret) ==
    /\ tmpDir' = ret.tmpDir
    /\ deferCleanup' = (ret.tmpDir # "")
    /\ orchErr' = ret.err
    /\ orchPc' = IF ret.err # "nil" THEN ExitPc(ret.tmpDir # "") ELSE "relSource"

\* prepareWorkspace: fsAdapter.FindProjectRoot
OrchFindProjectRoot ==
    /\ orchPc = "findRoot"
    /\ \E ok \in BOOLEAN :
        IF ok
        THEN /\ orchPc' = "createTemp"
             /\ UNCHANGED <<tmpDir, deferCleanup, orchErr>>
        ELSE AfterPrepare(PrepareWorkspace("find project root", FALSE, ""))
    /\ UNCHANGED <<mutation, ctxDone, cancelPhase, wsExists, wsCreated, fileWritten, runner,
                   cleanupRan, removeFailed, orchResult, othersOfOrch>>

\* prepareWorkspace: fsAdapter.CreateTempDir("gooze-mutation-*")
OrchCreateTempDir ==
    /\ orchPc = "createTemp"
    /\ \E ok \in BOOLEAN :
        IF ok
        THEN /\ wsExists' = TRUE
             /\ wsCreated' = TRUE
             /\ orchPc' = "copyDir"
             /\ UNCHANGED <<tmpDir, deferCleanup, orchErr>>
        ELSE /\ AfterPrepare(PrepareWorkspace("create temp dir", FALSE, ""))
             /\ UNCHANGED <<wsExists, wsCreated>>
    /\ UNCHANGED <<mutation, ctxDone, cancelPhase, fileWritten, runner, cleanupRan,
                   removeFailed, orchResult, othersOfOrch>>

\* prepareWorkspace: fsAdapter.CopyDir(projectRoot, tmpDir), and its return
OrchCopyDir ==
    /\ orchPc = "copyDir"
    /\ \E ok \in BOOLEAN : AfterPrepare(PrepareWorkspace("copy project", ok, "gooze-mutation-1"))
    /\ UNCHANGED <<mutation, ctxDone, cancelPhase, wsExists, wsCreated, fileWritten, runner,
                   cleanupRan, removeFailed, orchResult, othersOfOrch>>

\* buildTempSourcePath: fsAdapter.RelPath(projectRoot, origin)
OrchBuildTempSourcePath ==
    /\ orchPc = "relSource"
    /\ \E ok \in BOOLEAN :
        IF ok
        THEN /\ orchPc' = "write"
             /\ UNCHANGED orchErr
        ELSE /\ orchErr' = "failed to get relative source path"
             /\ orchPc' = ExitPc(deferCleanup)
    /\ UNCHANGED <<mutation, ctxDone, cancelPhase, tmpDir, deferCleanup, wsExists, wsCreated,
                   fileWritten, runner, cleanupRan, removeFailed, orchResult, othersOfOrch>>

\* writeMutatedFile: fsAdapter.WriteFile(tmpSourcePath, MutatedCode, 0o600)
OrchWriteMutatedFile ==
    /\ orchPc = "write"
    /\ \E ok \in BOOLEAN :
        IF ok
        THEN /\ fileWritten' = TRUE
             /\ orchPc' = "relTest"
             /\ UNCHANGED orchErr
        ELSE /\ orchErr' = "failed to write mutated file"
             /\ orchPc' = ExitPc(deferCleanup)
             /\ UNCHANGED fileWritten
    /\ UNCHANGED <<mutation, ctxDone, cancelPhase, tmpDir, deferCleanup, wsExists, wsCreated,
                   runner, cleanupRan, removeFailed, orchResult, othersOfOrch>>

\* buildTempTestPath: fsAdapter.RelPath(projectRoot, test)
OrchBuildTempTestPath ==
    /\ orchPc = "relTest"
    /\ \E ok \in BOOLEAN :
        IF ok
        THEN /\ orchPc' = "runTests"
             /\ UNCHANGED orchErr
        ELSE /\ orchErr' = "failed to get relative test path"
             /\ orchPc' = ExitPc(deferCleanup)
    /\ UNCHANGED <<mutation, ctxDone, cancelPhase, tmpDir, deferCleanup, wsExists, wsCreated,
                   fileWritten, runner, cleanupRan, removeFailed, orchResult, othersOfOrch>>

\* runTests: the ctx.Err() check, then the start of testAdapter.RunGoTest
OrchRunTests ==
    /\ orchPc = "runTests"
    /\ IF ctxDone
       THEN /\ orchResult' = ResultForStatus(MutationID, "Timeout")
            /\ orchPc' = ExitPc(deferCleanup)
            /\ UNCHANGED runner
       ELSE /\ runner' = "running"
            /\ orchPc' = "wait"
            /\ UNCHANGED orchResult
    /\ UNCHANGED <<mutation, ctxDone, cancelPhase, tmpDir, deferCleanup, wsExists, wsCreated,
                   fileWritten, cleanupRan, removeFailed, orchErr, othersOfOrch>>

\* RunGoTest returns: exit status zero (testErr = nil) or an error (non-zero exit,
\* killed by the context, or not started). A command that finishes as the
\* context is cancelled still reports success.
OrchRunGoTestReturns ==
    /\ orchPc = "wait"
    /\ \E testErr \in BOOLEAN : runner' = IF testErr THEN "exitErr" ELSE "exit0"
    /\ orchPc' = "verdict"
    /\ UNCHANGED <<mutation, ctxDone, cancelPhase, tmpDir, deferCleanup, wsExists, wsCreated,
                   fileWritten, cleanupRan, removeFailed, orchResult, orchErr, othersOfOrch>>

\* runTests lines 159-167 and return to.resultForStatus(mutation, status), nil
OrchVerdict ==
    /\ orchPc = "verdict"
    /\ orchResult' = ResultForStatus(MutationID, RunTestsVerdict(runner = "exitErr", ctxDone))
    /\ orchPc' = ExitPc(deferCleanup)
    /\ UNCHANGED <<mutation, ctxDone, cancelPhase, tmpDir, deferCleanup, wsExists, wsCreated,
                   fileWritten, runner, cleanupRan, removeFailed, orchErr, othersOfOrch>>

\* the deferred cleanupTempDir: RemoveAll, whose error is only logged
OrchCleanup ==
    /\ orchPc = "cleanup"
    /\ \E ok \in BOOLEAN :
        /\ wsExists' = IF ok THEN FALSE ELSE wsExists
        /\ removeFailed' = ~ok
    /\ cleanupRan' = TRUE
    /\ orchPc' = "returned"
    /\ UNCHANGED <<mutation, ctxDone, cancelPhase, tmpDir, deferCleanup, wsCreated,
                   fileWritten, runner, orchResult, orchErr, othersOfOrch>>

NextOrch ==
    \/ OrchCancel
    \/ OrchEnter
    \/ OrchValidate
    \/ OrchFindProjectRoot
    \/ OrchCreateTempDir
    \/ OrchCopyDir
    \/ OrchBuildTempSourcePath
    \/ OrchWriteMutatedFile
    \/ OrchBuildTempTestPath
    \/ OrchRunTests
    \/ OrchRunGoTestReturns
    \/ OrchVerdict
    \/ OrchCleanup

SpecOrch == InitOrch /\ [][NextOrch]_vars

OrchReturned == orchPc = "returned"

\* the status of the entry for the mutation in the returned result, "none" when absent
OrchStatus ==
    IF \E i \in DOMAIN orchResult : orchResult[i].id = MutationID
    THEN orchResult[CHOOSE i \in DOMAIN orchResult : orchResult[i].id = MutationID].status
    ELSE "none"

\* C3: Workspace release. Whenever TestMutation has returned and the temporary
\* directory was created during the call, cleanupTempDir has run before the
\* return, on every exit path, and the directory is gone unless RemoveAll itself
\* reported an error (which is only logged).
C3_WorkspaceRelease ==
    (OrchReturned /\ wsCreated) => (cleanupRan /\ (~removeFailed => ~wsExists))

C3_Witness ==
    /\ OrchReturned
    /\ wsCreated
    /\ orchErr = "failed to copy project"
    /\ cleanupRan
    /\ ~wsExists

\* C4: Cancellation verdict. For a mutation with a companion test, when the
\* context is cancelled before the runner is invoked or while the orchestrator
\* waits for it, the verdict is Timeout and never Killed or Survived.
C4_CancellationVerdict ==
    (/\ OrchReturned
     /\ mutation.hasOrigin
     /\ mutation.hasTest
     /\ cancelPhase \in {"pre", "setup", "wait"})
        => /\ OrchStatus \notin {"Killed", "Survived"}
           /\ (orchErr = "nil" => OrchStatus = "Timeout")

\* C5: Workspace failure verdict. When locating the project root, creating the
\* temporary directory, copying the project or writing the mutated file fails,
\* the result holds an entry for the mutation with status Error.
C5_WorkspaceFailureVerdict ==
    (OrchReturned /\ orchErr \in WorkspaceErrors) => OrchStatus = "Error"

\* C7: Exit-status verdict mapping. With no cancellation, the workspace prepared
\* and the mutated file written, a runner that exited zero yields Survived and
\* a runner that exited non-zero yields Killed, without an error.
C7_ExitStatusVerdict ==
    (OrchReturned /\ cancelPhase = "never" /\ fileWritten /\ runner # "none")
        => /\ orchErr = "nil"
           /\ (runner = "exit0" => OrchStatus = "Survived")
           /\ (runner = "exitErr" => OrchStatus = "Killed")

C7_Witness ==
    /\ OrchReturned
    /\ cancelPhase = "never"
    /\ fileWritten
    /\ runner = "exitErr"
    /\ OrchStatus = "Killed"

\* C8: No-test short-circuit. For a mutation whose origin is set and whose
\* source has no companion test, when the context was not cancelled on entry,
\* TestMutation returns Survived without an error, without creating a
\* workspace and without invoking the test runner.
C8_NoTestShortCircuit ==
    (OrchReturned /\ mutation.hasOrigin /\ ~mutation.hasTest /\ cancelPhase # "pre")
        => /\ OrchStatus = "Survived"
           /\ orchErr = "nil"
           /\ ~wsCreated
           /\ ~cleanupRan
           /\ runner = "none"

C8_Witness ==
    /\ OrchReturned
    /\ mutation.hasOrigin
    /\ ~mutation.hasTest
    /\ cancelPhase = "never"
    /\ OrchStatus = "Survived"

\* ------------------------------------------------------------------ workflow.TestReports
MaxShardSize == 2      \* most mutations in the shard under test
MaxThreads == 2        \* largest TestArgs.Threads

\* effectiveThreads
EffectiveThreads(n) == IF n <= 0 THEN 1 ELSE n

\* getMutationStatus
GetMutationStatus(result, id) ==
    IF \E i \in DOMAIN result : result[i].id = id
    THEN result[CHOOSE i \in DOMAIN result : result[i].id = id].status
    ELSE "Error"

\* what Orchestrator.TestMutation returns for mutation id: a verdict, or m.Result{} and an error
TestMutationOutcomes(id) ==
    {[result |-> ResultForStatus(id, st), err |-> "nil"] : st \in {"Killed", "Survived", "Timeout"}}
        \cup {[result |-> <<>>, err |-> "failed to copy project"]}

Mutations == 1..shardSize

\* goroutines the errgroup counts against its limit
Active == {i \in Mutations : wpc[i] \notin {"new", "done"}}

InitTestShard(sizes, threadCounts) ==
    /\ BranchIdle
    /\ PipeIdle
    /\ UiIdle
    /\ TuiIdle
    /\ FlagIdle
    /\ SpillIdle
    /\ MergeIdle
    /\ ShardIdle
    /\ OrchIdle
    /\ ScoreIdle
    /\ MutagenIdle
    /\ FilterIdle
    /\ CacheIdle
    /\ shardSize \in sizes
    /\ threads \in threadCounts
    /\ testPc = "ui"
    /\ nextMut = 1
    /\ wpc = [i \in Mutations |-> "new"]
    /\ wResult = [i \in Mutations |-> <<>>]
    /\ threadID = [i \in Mutations |-> -1]
    /\ threadIDCounter = -1
    /\ reportsMutex = 0
    /\ reports = <<>>
    /\ errors = <<>>
    /\ groupErr = "nil"
    /\ testRet = "nil"
    /\ saved = FALSE
    /\ indexRegenerated = FALSE
    /\ appendFailed = FALSE
    /\ persistFailed = FALSE
    /\ uiEvents = <<>>
    /\ handed = [i \in Mutations |-> 0]
    /\ workspaceOf = [i \in Mutations |-> 0]

EventWithoutUpcoming(ev, mut) ==
    [ev |-> IF ev = "UpcomingTests" THEN "ConcurrencyInfo" ELSE ev, mut |-> mut]

\* Test called with any number of threads over any shard
InitTest == InitTestShard(0..MaxShardSize, 0..MaxThreads)

\* Test called with the most threads over a shard of more mutations than threads
InitSlots == InitTestShard({MaxThreads + 1}, {MaxThreads})

\* a call of the progress sink
Event(ev, mut) == [ev |-> ev, mut |-> mut]

\* withTestUI: w.Start(controller.WithTestMode()); when it fails Test returns
\* before the deferred Close is registered
TestUIStart ==
    /\ testPc = "ui"
    /\ \E ok \in BOOLEAN :
        IF ok
        THEN /\ uiEvents' = Append(uiEvents, Event("Start", 0))
             /\ testPc' = "info"
             /\ UNCHANGED testRet
        ELSE /\ testRet' = "start ui"
             /\ testPc' = "returned"
             /\ UNCHANGED uiEvents
    /\ UNCHANGED <<shardSize, threads, nextMut, wpc, wResult, threadID, threadIDCounter,
                   reportsMutex, reports, errors, groupErr, saved, indexRegenerated,
                   appendFailed, persistFailed, handed, workspaceOf, othersOfTest>>

\* Test: DisplayConcurrencyInfo, then GetMutations, whose error Test returns
TestConcurrencyInfo ==
    /\ testPc = "info"
    /\ uiEvents' = Append(uiEvents, Event("ConcurrencyInfo", 0))
    /\ \E ok \in BOOLEAN :
        IF ok
        THEN /\ testPc' = "upcoming"
             /\ UNCHANGED testRet
        ELSE /\ testRet' = "generate mutations"
             /\ testPc' = "closeUI"
    /\ UNCHANGED <<shardSize, threads, nextMut, wpc, wResult, threadID, threadIDCounter,
                   reportsMutex, reports, errors, groupErr, saved, indexRegenerated,
                   appendFailed, persistFailed, handed, workspaceOf, othersOfTest>>

\* Test: ShardMutations and DisplayUpcomingTestsInfo(len(shardMutations))
TestUpcomingTests ==
    /\ testPc = "upcoming"
    /\ uiEvents' = Append(uiEvents, Event("UpcomingTests", 0))
    /\ testPc' = "spawn"
    /\ UNCHANGED <<shardSize, threads, nextMut, wpc, wResult, threadID, threadIDCounter,
                   reportsMutex, reports, errors, groupErr, testRet, saved, indexRegenerated,
                   appendFailed, persistFailed, handed, workspaceOf, othersOfTest>>

\* the loop of TestReports: group.Go blocks while the limit is reached
TestReportsGo ==
    /\ testPc = "spawn"
    /\ nextMut <= shardSize
    /\ Cardinality(Active) < EffectiveThreads(threads)
    /\ wpc' = [wpc EXCEPT ![nextMut] = "start"]
    /\ nextMut' = nextMut + 1
    /\ UNCHANGED <<shardSize, threads, testPc, wResult, threadID, threadIDCounter,
                   reportsMutex, reports, errors, groupErr, testRet, saved, indexRegenerated,
                   appendFailed, persistFailed, uiEvents, handed, workspaceOf, othersOfTest>>

\* processMutation: atomic.AddInt32 and DisplayStartingTestInfo
ProcessMutationStart(i) ==
    /\ wpc[i] = "start"
    /\ threadIDCounter' = threadIDCounter + 1
    /\ threadID' = [threadID EXCEPT ![i] = (threadIDCounter + 1) % EffectiveThreads(threads)]
    /\ wpc' = [wpc EXCEPT ![i] = "test"]
    /\ uiEvents' = Append(uiEvents, Event("StartingTest", i))
    /\ UNCHANGED <<shardSize, threads, testPc, nextMut, wResult, reportsMutex, reports,
                   errors, groupErr, testRet, saved, indexRegenerated, appendFailed,
                   persistFailed, handed, workspaceOf, othersOfTest>>

CreateTempDirPattern(existing) == Mutations

\* CreateTempDir: os.MkdirTemp makes a directory under a name no existing
\* directory has; the names are numbered, one for each mutation of the shard
CreateTempDir(existing) == Mutations \ existing

\* the temp dirs of the TestMutation calls in flight
Workspaces == {workspaceOf[j] : j \in Mutations} \ {0}

\* processMutation calls TestMutationWithTimeout: prepareWorkspace makes the
\* temp dir of this call (none for a mutation without a test file, or when
\* the project root is not found)
ProcessMutationCall(i) ==
    /\ wpc[i] = "test"
    /\ handed' = [handed EXCEPT ![i] = handed[i] + 1]
    /\ \E dir \in CreateTempDir(Workspaces) \cup {0} :
        workspaceOf' = [workspaceOf EXCEPT ![i] = dir]
    /\ wpc' = [wpc EXCEPT ![i] = "testing"]
    /\ UNCHANGED <<shardSize, threads, testPc, nextMut, wResult, threadID, threadIDCounter,
                   reportsMutex, reports, errors, groupErr, testRet, saved, indexRegenerated,
                   appendFailed, persistFailed, uiEvents, othersOfTest>>

\* processMutation: TestMutationWithTimeout returns, its deferred cleanupTempDir
\* has run; on an error the goroutine appends it to errors under errorsMutex
\* and returns nil
ProcessMutationTest(i) ==
    /\ wpc[i] = "testing"
    /\ workspaceOf' = [workspaceOf EXCEPT ![i] = 0]
    /\ \E outcome \in TestMutationOutcomes(i) :
        IF outcome.err # "nil"
        THEN /\ errors' = Append(errors, outcome.err)
             /\ wpc' = [wpc EXCEPT ![i] = "done"]
             /\ UNCHANGED wResult
        ELSE /\ wResult' = [wResult EXCEPT ![i] = outcome.result]
             /\ wpc' = [wpc EXCEPT ![i] = "lock"]
             /\ UNCHANGED errors
    /\ UNCHANGED <<shardSize, threads, testPc, nextMut, threadID, threadIDCounter,
                   reportsMutex, reports, groupErr, testRet, saved, indexRegenerated,
                   appendFailed, persistFailed, uiEvents, handed, othersOfTest>>

\* processMutation: reportsMutex.Lock()
ProcessMutationLock(i) ==
    /\ wpc[i] = "lock"
    /\ reportsMutex = 0
    /\ reportsMutex' = i
    /\ wpc' = [wpc EXCEPT ![i] = "append"]
    /\ UNCHANGED <<shardSize, threads, testPc, nextMut, wResult, threadID, threadIDCounter,
                   reports, errors, groupErr, testRet, saved, indexRegenerated, appendFailed,
                   persistFailed, uiEvents, handed, workspaceOf, othersOfTest>>

\* what the goroutine does with reportsMutex when Append failed: it returns
\* the error, and the mutex stays locked
MutexAfterFailedAppend(holder) == holder

AttachDiffAlways(status) == TRUE

\* processMutation: report.Diff is set when getMutationStatus is m.Survived
AttachDiff(status) == status = "Survived"

\* processMutation: (*reports).Append(report); on success Unlock, on failure
\* return the error to the errgroup
ProcessMutationAppend(i) ==
    /\ wpc[i] = "append"
    /\ \E ok \in BOOLEAN :
        IF ok
        THEN /\ reports' = Append(reports,
                    [mut |-> i, result |-> wResult[i],
                     diff |-> AttachDiff(GetMutationStatus(wResult[i], i))])
             /\ reportsMutex' = 0
             /\ wpc' = [wpc EXCEPT ![i] = "completed"]
             /\ UNCHANGED <<groupErr, appendFailed>>
        ELSE /\ groupErr' = IF groupErr = "nil" THEN "append report to filespill" ELSE groupErr
             /\ appendFailed' = TRUE
             /\ reportsMutex' = MutexAfterFailedAppend(i)
             /\ wpc' = [wpc EXCEPT ![i] = "done"]
             /\ UNCHANGED reports
    /\ UNCHANGED <<shardSize, threads, testPc, nextMut, wResult, threadID, threadIDCounter,
                   errors, testRet, saved, indexRegenerated, persistFailed, uiEvents, handed,
                   workspaceOf, othersOfTest>>

\* processMutation: DisplayCompletedTestInfo and return nil
ProcessMutationCompleted(i) ==
    /\ wpc[i] = "completed"
    /\ wpc' = [wpc EXCEPT ![i] = "done"]
    /\ uiEvents' = Append(uiEvents, Event("CompletedTest", i))
    /\ UNCHANGED <<shardSize, threads, testPc, nextMut, wResult, threadID, threadIDCounter,
                   reportsMutex, reports, errors, groupErr, testRet, saved, indexRegenerated,
                   appendFailed, persistFailed, handed, workspaceOf, othersOfTest>>

\* the error TestReports returns once group.Wait() has returned
TestReportsError ==
    IF groupErr # "nil" THEN groupErr
    ELSE IF Len(errors) = 0 THEN "nil"
    ELSE "errors occurred during mutation testing"

\* group.Wait() returns when every goroutine has; Test returns at once on an error
TestReportsWait ==
    /\ testPc = "spawn"
    /\ nextMut > shardSize
    /\ \A i \in Mutations : wpc[i] = "done"
    /\ IF TestReportsError # "nil"
       THEN /\ testRet' = "run mutation tests: " \o TestReportsError
            /\ testPc' = "closeUI"
       ELSE /\ testPc' = "score"
            /\ UNCHANGED testRet
    /\ UNCHANGED <<shardSize, threads, nextMut, wpc, wResult, threadID, threadIDCounter,
                   reportsMutex, reports, errors, groupErr, saved, indexRegenerated,
                   appendFailed, persistFailed, uiEvents, handed, workspaceOf, othersOfTest>>

\* one of Test's calls after TestReports: when it fails Test returns the error
TestStep(pc, next, what, ok) ==
    /\ testPc = pc
    /\ testPc' = IF ok THEN next ELSE "closeUI"
    /\ testRet' = IF ok THEN testRet ELSE what
    /\ persistFailed' = (persistFailed \/ ~ok)
    /\ UNCHANGED <<shardSize, threads, nextMut, wpc, wResult, threadID, threadIDCounter,
                   reportsMutex, reports, errors, groupErr, appendFailed, handed, workspaceOf,
                   othersOfTest>>

\* mutationScoreFromReports and DisplayMutationScore
TestScore ==
    \E ok \in BOOLEAN :
        /\ TestStep("score", "save", "calculate mutation score", ok)
        /\ uiEvents' = IF ok THEN Append(uiEvents, Event("MutationScore", 0)) ELSE uiEvents
        /\ UNCHANGED <<saved, indexRegenerated>>

\* SaveSpillReports(reportsDir, reports)
TestSave ==
    \E ok \in BOOLEAN :
        /\ TestStep("save", "close", "save reports", ok)
        /\ saved' = ok
        /\ UNCHANGED <<indexRegenerated, uiEvents>>

\* reports.Close()
TestClose ==
    \E ok \in BOOLEAN :
        /\ TestStep("close", "index", "close reports spill", ok)
        /\ UNCHANGED <<saved, indexRegenerated, uiEvents>>

\* RegenerateIndex(reportsDir) and return nil
TestRegenerateIndex ==
    \E ok \in BOOLEAN :
        /\ TestStep("index", "closeUI", "regenerate index", ok)
        /\ indexRegenerated' = ok
        /\ UNCHANGED <<saved, uiEvents>>

\* withTestUI: after fn returned, w.Wait() when it succeeded, then the deferred
\* w.Close()
TestUIClose ==
    /\ testPc = "closeUI"
    /\ uiEvents' = Append(uiEvents, Event("Close", 0))
    /\ testPc' = "returned"
    /\ UNCHANGED <<shardSize, threads, nextMut, wpc, wResult, threadID, threadIDCounter,
                   reportsMutex, reports, errors, groupErr, testRet, saved, indexRegenerated,
                   appendFailed, persistFailed, handed, workspaceOf, othersOfTest>>

NextTest ==
    \/ TestUIStart
    \/ TestConcurrencyInfo
    \/ TestUpcomingTests
    \/ TestReportsGo
    \/ \E i \in Mutations : ProcessMutationStart(i)
    \/ \E i \in Mutations : ProcessMutationCall(i)
    \/ \E i \in Mutations : ProcessMutationTest(i)
    \/ \E i \in Mutations : ProcessMutationLock(i)
    \/ \E i \in Mutations : ProcessMutationAppend(i)
    \/ \E i \in Mutations : ProcessMutationCompleted(i)
    \/ TestReportsWait
    \/ TestScore
    \/ TestSave
    \/ TestClose
    \/ TestRegenerateIndex
    \/ TestUIClose

SpecTest == InitTest /\ [][NextTest]_vars

TestReturned == testPc = "returned"

\* C2: A persistence error aborts the run. If an Append on the reports spill
\* fails, Test still terminates (it has returned, or some step can be taken)
\* and the error is returned; no goroutine is left waiting for reportsMutex.
C2_PersistenceErrorAborts ==
    appendFailed =>
        /\ (TestReturned \/ ENABLED NextTest)
        /\ (TestReturned => testRet # "nil")

\* C6: The run continues after a workspace error. When the orchestrator failed
\* on a mutation and nothing failed in persistence, Test has, on return, tested
\* every mutation of the shard, saved the reports spill and regenerated the index.
C6_RunContinuesAfterWorkspaceError ==
    (TestReturned /\ Len(errors) > 0 /\ ~appendFailed /\ ~persistFailed)
        => /\ \A i \in Mutations : wpc[i] = "done"
           /\ saved
           /\ indexRegenerated

\* ------------------------------------------------------------------ mutationScoreFromReports
MaxSpill == 3      \* most reports in the spill
MaxEntries == 3    \* most result entries in the whole spill

Statuses == {"Killed", "Survived", "Skipped", "Error", "Timeout"}

Counted == {"Killed", "Survived"}

\* never adds to killed: the mutation score is then always 0
ScoreEntryNoKill(acc, status) ==
    IF status \in Counted THEN [acc EXCEPT !.total = @ + 1] ELSE acc

\* the switch on entry.Status: Timeout matches no case
ScoreEntry(acc, status) ==
    IF status = "Killed" THEN [killed |-> acc.killed + 1, total |-> acc.total + 1]
    ELSE IF status = "Survived" THEN [acc EXCEPT !.total = @ + 1]
    ELSE acc

RECURSIVE ScoreEntries(_, _)
\* the loops over report.Result and its entries
ScoreEntries(acc, entries) ==
    IF entries = <<>> THEN acc
    ELSE ScoreEntries(ScoreEntry(acc, Head(entries)), Tail(entries))

RECURSIVE ScoreRange(_, _)
\* reports.Range with the counting callback
ScoreRange(acc, rs) ==
    IF rs = <<>> THEN acc
    ELSE ScoreRange(ScoreEntries(acc, Head(rs)), Tail(rs))

\* the float64 returned when Range returns no error, as a fraction
MutationScoreFromReports(rs) ==
    LET acc == ScoreRange([killed |-> 0, total |-> 0], rs)
    IN IF acc.total = 0 THEN [num |-> 100, den |-> 1]
       ELSE [num |-> acc.killed, den |-> acc.total]

RECURSIVE TotalEntries(_)
TotalEntries(rs) == IF rs = <<>> THEN 0 ELSE Len(Head(rs)) + TotalEntries(Tail(rs))

InitScore ==
    /\ BranchIdle
    /\ PipeIdle
    /\ UiIdle
    /\ TuiIdle
    /\ FlagIdle
    /\ SpillIdle
    /\ MergeIdle
    /\ ShardIdle
    /\ OrchIdle
    /\ TestIdle
    /\ MutagenIdle
    /\ FilterIdle
    /\ CacheIdle
    /\ spill = <<>>
    /\ scorePc = "fill"
    /\ score = [num |-> 0, den |-> 1]
    /\ scoreErr = "nil"
    /\ displayed = [num |-> 0, den |-> 1]

\* FileSpill.Append of one report
SpillAppend ==
    /\ scorePc = "fill"
    /\ Len(spill) < MaxSpill
    /\ \E report \in SeqsUpTo(Statuses, MaxEntries - TotalEntries(spill)) :
        spill' = Append(spill, report)
    /\ UNCHANGED <<scorePc, score, scoreErr, displayed, othersOfScore>>

\* workflow.Test calls mutationScoreFromReports; Range may return an error
ScoreRun ==
    /\ scorePc = "fill"
    /\ \E ok \in BOOLEAN :
        IF ok
        THEN /\ score' = MutationScoreFromReports(spill)
             /\ scorePc' = "scored"
             /\ UNCHANGED scoreErr
        ELSE /\ score' = [num |-> 0, den |-> 1]
             /\ scoreErr' = "range failed"
             /\ scorePc' = "returned"
    /\ UNCHANGED <<spill, displayed, othersOfScore>>

\* DisplayMutationScore prints score*100 as a percentage
ScoreDisplay ==
    /\ scorePc = "scored"
    /\ displayed' = [num |-> score.num * 100, den |-> score.den]
    /\ scorePc' = "displayed"
    /\ UNCHANGED <<spill, score, scoreErr, othersOfScore>>

NextScore == SpillAppend \/ ScoreRun \/ ScoreDisplay

SpecScore == InitScore /\ [][NextScore]_vars

Scored == scorePc \in {"scored", "displayed"}

\* entries of the whole spill with the given status, counted over the spill itself
EntriesWith(status) ==
    Cardinality({<<i, j>> \in (1..MaxSpill) \X (1..MaxEntries) :
                    i <= Len(spill) /\ j <= Len(spill[i]) /\ spill[i][j] = status})

C17_ScoreBounds ==
    Scored => (0 <= score.num /\ score.num <= score.den)

\* C18: Empty spill score. For a spill holding no report the returned score is 1.
C18_EmptySpillScore ==
    (Scored /\ spill = <<>>) => score.num = score.den

\* C19: All-excluded score. For a non-empty spill whose entries all have status
\* Skipped, Error or Timeout the returned score is 0.
C19_AllExcludedScore ==
    (Scored /\ TotalEntries(spill) > 0
        /\ EntriesWith("Killed") + EntriesWith("Survived") = 0)
        => score.num = 0

\* ------------------------------------------------------------------ mutagen.StreamMutations
MaxSources == 2    \* most sources the producer sends on the input channel

SourceKinds == {"valid", "invalid", "unparsable"}

\* bufferSize := threads, raised to 1
BufferSize(n) == IF n <= 0 THEN 1 ELSE n

\* returns without sending the error
OnFailureSilent(cause) == "closeErr"

\* every failure is followed by `errCh <- err` and a return
OnFailure(cause) == "sendErr"

InitMutagen ==
    /\ BranchIdle
    /\ PipeIdle
    /\ UiIdle
    /\ TuiIdle
    /\ FlagIdle
    /\ SpillIdle
    /\ MergeIdle
    /\ ShardIdle
    /\ OrchIdle
    /\ TestIdle
    /\ ScoreIdle
    /\ FilterIdle
    /\ CacheIdle
    /\ mgTypesOk \in BOOLEAN
    /\ mgBufferSize \in {BufferSize(n) : n \in 0..MaxThreads}
    /\ mgCtxDone \in BOOLEAN
    /\ mgPc = "validate"
    /\ sourcesCh = <<>>
    /\ sourcesClosed = FALSE
    /\ produced = 0
    /\ cur = "none"
    /\ pending = 0
    /\ mutationCh = 0
    /\ mutationChClosed = FALSE
    /\ errCh = <<>>
    /\ errChClosed = FALSE
    /\ errSent = 0
    /\ mgCause = "none"
    /\ mgWake = FALSE

\* the caller's side of the input channel sends one more source
MgProducerSend ==
    /\ ~sourcesClosed
    /\ produced < MaxSources
    /\ sourcesCh = <<>>
    /\ \E kind \in SourceKinds : sourcesCh' = <<kind>>
    /\ produced' = produced + 1
    /\ UNCHANGED <<mgTypesOk, mgBufferSize, mgCtxDone, mgPc, sourcesClosed, cur, pending,
                   mutationCh, mutationChClosed, errCh, errChClosed, errSent, mgCause,
                   mgWake, othersOfMutagen>>

\* the caller closes the input channel
MgProducerClose ==
    /\ ~sourcesClosed
    /\ sourcesClosed' = TRUE
    /\ UNCHANGED <<mgTypesOk, mgBufferSize, mgCtxDone, mgPc, sourcesCh, produced, cur,
                   pending, mutationCh, mutationChClosed, errCh, errChClosed, errSent,
                   mgCause, mgWake, othersOfMutagen>>

\* cancel(): a goroutine blocked in the select of sendMutations takes the Done case
MgCancel ==
    /\ ~mgCtxDone
    /\ mgPc # "done"
    /\ mgCtxDone' = TRUE
    /\ mgWake' = (mgPc = "send" /\ pending > 0 /\ mutationCh >= mgBufferSize)
    /\ UNCHANGED <<mgTypesOk, mgBufferSize, mgPc, sourcesCh, sourcesClosed, produced, cur,
                   pending, mutationCh, mutationChClosed, errCh, errChClosed, errSent,
                   mgCause, othersOfMutagen>>

\* the consumer receives one mutation
MgConsumerRecv ==
    /\ mutationCh > 0
    /\ mutationCh' = mutationCh - 1
    /\ UNCHANGED <<mgTypesOk, mgBufferSize, mgCtxDone, mgPc, sourcesCh, sourcesClosed,
                   produced, cur, pending, mutationChClosed, errCh, errChClosed, errSent,
                   mgCause, mgWake, othersOfMutagen>>

\* the consumer receives the error
MgConsumerErr ==
    /\ errCh # <<>>
    /\ errCh' = Tail(errCh)
    /\ UNCHANGED <<mgTypesOk, mgBufferSize, mgCtxDone, mgPc, sourcesCh, sourcesClosed,
                   produced, cur, pending, mutationCh, mutationChClosed, errChClosed,
                   errSent, mgCause, mgWake, othersOfMutagen>>

\* Stage 1: validateConfig
MgValidateConfig ==
    /\ mgPc = "validate"
    /\ IF mgTypesOk
       THEN /\ mgPc' = "recv"
            /\ UNCHANGED mgCause
       ELSE /\ mgCause' = "unsupported mutation type"
            /\ mgPc' = OnFailure(mgCause')
    /\ UNCHANGED <<mgTypesOk, mgBufferSize, mgCtxDone, sourcesCh, sourcesClosed, produced,
                   cur, pending, mutationCh, mutationChClosed, errCh, errChClosed, errSent,
                   mgWake, othersOfMutagen>>

\* `for source := range sources`: a receive, or the end of the loop once the
\* channel is closed and drained; nothing else ends the wait
MgRangeSources ==
    /\ mgPc = "recv"
    /\ IF sourcesCh # <<>>
       THEN /\ cur' = Head(sourcesCh)
            /\ sourcesCh' = Tail(sourcesCh)
            /\ mgPc' = "checkCtx"
       ELSE /\ sourcesClosed
            /\ mgPc' = "closeErr"
            /\ UNCHANGED <<cur, sourcesCh>>
    /\ UNCHANGED <<mgTypesOk, mgBufferSize, mgCtxDone, sourcesClosed, produced, pending,
                   mutationCh, mutationChClosed, errCh, errChClosed, errSent, mgCause,
                   mgWake, othersOfMutagen>>

\* processSourcesStream: ctx.Err() at the head of the loop body
MgCheckCtx ==
    /\ mgPc = "checkCtx"
    /\ IF mgCtxDone
       THEN /\ mgCause' = "context canceled"
            /\ mgPc' = OnFailure(mgCause')
       ELSE /\ mgPc' = "process"
            /\ UNCHANGED mgCause
    /\ UNCHANGED <<mgTypesOk, mgBufferSize, mgCtxDone, sourcesCh, sourcesClosed, produced,
                   cur, pending, mutationCh, mutationChClosed, errCh, errChClosed, errSent,
                   mgWake, othersOfMutagen>>

\* processSourceStream: validateSource, loadSourceAST, then the mutations of
\* every type are collected to be sent
MgProcessSourceStream ==
    /\ mgPc = "process"
    /\ IF cur = "invalid"
       THEN /\ mgCause' = "missing source origin"
            /\ mgPc' = OnFailure(mgCause')
            /\ UNCHANGED pending
       ELSE IF cur = "unparsable"
       THEN /\ mgCause' = "failed to parse"
            /\ mgPc' = OnFailure(mgCause')
            /\ UNCHANGED pending
       ELSE /\ \E n \in 0..MaxMutPerSource : pending' = n
            /\ mgPc' = "send"
            /\ UNCHANGED mgCause
    /\ UNCHANGED <<mgTypesOk, mgBufferSize, mgCtxDone, sourcesCh, sourcesClosed, produced,
                   cur, mutationCh, mutationChClosed, errCh, errChClosed, errSent, mgWake,
                   othersOfMutagen>>

\* sendMutations: case mutationCh <- mutation
MgSendMutation ==
    /\ mgPc = "send"
    /\ pending > 0
    /\ mutationCh < mgBufferSize
    /\ ~mgWake
    /\ mutationCh' = mutationCh + 1
    /\ pending' = pending - 1
    /\ UNCHANGED <<mgTypesOk, mgBufferSize, mgCtxDone, mgPc, sourcesCh, sourcesClosed,
                   produced, cur, mutationChClosed, errCh, errChClosed, errSent, mgCause,
                   mgWake, othersOfMutagen>>

\* sendMutations: case <-ctx.Done()
MgSendCancelled ==
    /\ mgPc = "send"
    /\ pending > 0
    /\ mgCtxDone
    /\ mgCause' = "context canceled in send"
    /\ mgPc' = OnFailure(mgCause')
    /\ mgWake' = FALSE
    /\ UNCHANGED <<mgTypesOk, mgBufferSize, mgCtxDone, sourcesCh, sourcesClosed, produced,
                   cur, pending, mutationCh, mutationChClosed, errCh, errChClosed, errSent,
                   othersOfMutagen>>

\* every mutation of the source is sent: back to the range loop
MgSourceDone ==
    /\ mgPc = "send"
    /\ pending = 0
    /\ mgPc' = "recv"
    /\ cur' = "none"
    /\ UNCHANGED <<mgTypesOk, mgBufferSize, mgCtxDone, sourcesCh, sourcesClosed, produced,
                   pending, mutationCh, mutationChClosed, errCh, errChClosed, errSent,
                   mgCause, mgWake, othersOfMutagen>>

\* errCh <- err, on a channel of capacity 1
MgSendErr ==
    /\ mgPc = "sendErr"
    /\ Len(errCh) < 1
    /\ errCh' = Append(errCh, mgCause)
    /\ errSent' = errSent + 1
    /\ mgPc' = "closeErr"
    /\ UNCHANGED <<mgTypesOk, mgBufferSize, mgCtxDone, sourcesCh, sourcesClosed, produced,
                   cur, pending, mutationCh, mutationChClosed, errChClosed, mgCause, mgWake,
                   othersOfMutagen>>

\* defer close(errCh) runs first
MgCloseErrCh ==
    /\ mgPc = "closeErr"
    /\ errChClosed' = TRUE
    /\ mgPc' = "closeMut"
    /\ UNCHANGED <<mgTypesOk, mgBufferSize, mgCtxDone, sourcesCh, sourcesClosed, produced,
                   cur, pending, mutationCh, mutationChClosed, errCh, errSent, mgCause,
                   mgWake, othersOfMutagen>>

\* defer close(mutationCh) runs last
MgCloseMutationCh ==
    /\ mgPc = "closeMut"
    /\ mutationChClosed' = TRUE
    /\ mgPc' = "done"
    /\ UNCHANGED <<mgTypesOk, mgBufferSize, mgCtxDone, sourcesCh, sourcesClosed, produced,
                   cur, pending, mutationCh, errCh, errChClosed, errSent, mgCause, mgWake,
                   othersOfMutagen>>

\* the steps of the goroutine started by StreamMutations
MgGoroutine ==
    \/ MgValidateConfig
    \/ MgRangeSources
    \/ MgCheckCtx
    \/ MgProcessSourceStream
    \/ MgSendMutation
    \/ MgSendCancelled
    \/ MgSourceDone
    \/ MgSendErr
    \/ MgCloseErrCh
    \/ MgCloseMutationCh

NextMutagen ==
    \/ MgProducerSend
    \/ MgProducerClose
    \/ MgCancel
    \/ MgConsumerRecv
    \/ MgConsumerErr
    \/ MgGoroutine

SpecMutagen == InitMutagen /\ [][NextMutagen]_vars

\* the Go scheduler runs a goroutine that can take a step
SpecMutagenFair == SpecMutagen /\ WF_vars(MgGoroutine)

\* C11: Streaming mode closes on cancellation. Once the context passed to
\* StreamMutations is cancelled, the mutation channel is eventually closed, even
\* if the input channel is never closed and delivers no further source.
C11_StreamClosesOnCancel == mgCtxDone ~> mutationChClosed

\* C12: One-shot error sink. At most one error is ever sent on the error sink;
\* when a source is invalid or cannot be parsed, the type list is unsupported, or
\* the context is found cancelled (by the select of a send or at the head of the
\* loop), exactly one error has been sent by the time the mutation channel is closed.
C12_OneShotErrorSink ==
    /\ errSent <= 1
    /\ Len(errCh) <= 1
    /\ (mgCause = "none" => errSent = 0)
    /\ ((mutationChClosed /\ mgCause # "none") => (errSent = 1 /\ errChClosed))

C12_Witness ==
    /\ mutationChClosed
    /\ mgCause = "context canceled in send"
    /\ errSent = 1
    /\ produced = 1
    /\ ~sourcesClosed

\* ------------------------------------------------------------------ the goroutine of mutationStreamer.ShardMutations
\* normalizeBufferSize
NormalizeBufferSize(n) == IF n <= 0 THEN 1 ELSE n

InitFilter ==
    /\ BranchIdle
    /\ PipeIdle
    /\ UiIdle
    /\ TuiIdle
    /\ FlagIdle
    /\ SpillIdle
    /\ MergeIdle
    /\ ShardIdle
    /\ OrchIdle
    /\ TestIdle
    /\ ScoreIdle
    /\ MutagenIdle
    /\ CacheIdle
    /\ fsTotal \in 0..MaxShards
    /\ fsShard \in 0..(IF fsTotal = 0 THEN 0 ELSE fsTotal - 1)
    /\ fsBufferSize \in {NormalizeBufferSize(n) : n \in 0..MaxThreads}
    /\ fsCtxDone \in BOOLEAN
    /\ fsPc = "start"
    /\ inCh = <<>>
    /\ inClosed = FALSE
    /\ inSent = 0
    /\ fsIndex = 0
    /\ outCh = 0
    /\ outClosed = FALSE
    /\ fsWake = FALSE

\* the producer (the goroutine of Get) sends one more mutation
FsProducerSend ==
    /\ ~inClosed
    /\ inSent < MaxMutations
    /\ inCh = <<>>
    /\ inCh' = <<inSent + 1>>
    /\ inSent' = inSent + 1
    /\ UNCHANGED <<fsTotal, fsShard, fsBufferSize, fsCtxDone, fsPc, inClosed, fsIndex,
                   outCh, outClosed, fsWake, othersOfFilter>>

\* the producer closes the input channel
FsProducerClose ==
    /\ ~inClosed
    /\ inClosed' = TRUE
    /\ UNCHANGED <<fsTotal, fsShard, fsBufferSize, fsCtxDone, fsPc, inCh, inSent, fsIndex,
                   outCh, outClosed, fsWake, othersOfFilter>>

\* cancel(): a goroutine blocked in a send select takes the Done case
FsCancel ==
    /\ ~fsCtxDone
    /\ fsPc # "done"
    /\ fsCtxDone' = TRUE
    /\ fsWake' = (fsPc \in {"ptSend", "fSend"} /\ outCh >= fsBufferSize)
    /\ UNCHANGED <<fsTotal, fsShard, fsBufferSize, fsPc, inCh, inClosed, inSent, fsIndex,
                   outCh, outClosed, othersOfFilter>>

\* the consumer receives one mutation
FsConsumerRecv ==
    /\ outCh > 0
    /\ outCh' = outCh - 1
    /\ UNCHANGED <<fsTotal, fsShard, fsBufferSize, fsCtxDone, fsPc, inCh, inClosed, inSent,
                   fsIndex, outClosed, fsWake, othersOfFilter>>

\* ShardMutations: pass through when sharding is disabled, filter otherwise
FsStart ==
    /\ fsPc = "start"
    /\ fsPc' = IF fsTotal <= 0 THEN "ptRecv" ELSE "fRecv"
    /\ UNCHANGED <<fsTotal, fsShard, fsBufferSize, fsCtxDone, inCh, inClosed, inSent,
                   fsIndex, outCh, outClosed, fsWake, othersOfFilter>>

\* `for mutation := range in` of either loop: a receive, or the end of the loop
\* once the input is closed and drained; nothing else ends the wait
FsRangeIn ==
    /\ fsPc \in {"ptRecv", "fRecv"}
    /\ IF inCh # <<>>
       THEN /\ inCh' = Tail(inCh)
            /\ fsPc' = IF fsPc = "ptRecv" THEN "ptSend" ELSE "fCheck"
       ELSE /\ inClosed
            /\ fsPc' = "close"
            /\ UNCHANGED inCh
    /\ UNCHANGED <<fsTotal, fsShard, fsBufferSize, fsCtxDone, inClosed, inSent, fsIndex,
                   outCh, outClosed, fsWake, othersOfFilter>>

\* filterMutationsByShard: the select with a default case, then the shard test
FsCheck ==
    /\ fsPc = "fCheck"
    /\ IF fsCtxDone
       THEN /\ fsPc' = "close"
            /\ UNCHANGED fsIndex
       ELSE IF fsIndex % fsTotal = fsShard
       THEN /\ fsPc' = "fSend"
            /\ UNCHANGED fsIndex
       ELSE /\ fsIndex' = fsIndex + 1
            /\ fsPc' = "fRecv"
    /\ UNCHANGED <<fsTotal, fsShard, fsBufferSize, fsCtxDone, inCh, inClosed, inSent,
                   outCh, outClosed, fsWake, othersOfFilter>>

\* case out <- mutation of either loop
FsSend ==
    /\ fsPc \in {"ptSend", "fSend"}
    /\ outCh < fsBufferSize
    /\ ~fsWake
    /\ outCh' = outCh + 1
    /\ fsIndex' = IF fsPc = "fSend" THEN fsIndex + 1 ELSE fsIndex
    /\ fsPc' = IF fsPc = "fSend" THEN "fRecv" ELSE "ptRecv"
    /\ UNCHANGED <<fsTotal, fsShard, fsBufferSize, fsCtxDone, inCh, inClosed, inSent,
                   outClosed, fsWake, othersOfFilter>>

\* case <-ctx.Done() of either send select
FsSendCancelled ==
    /\ fsPc \in {"ptSend", "fSend"}
    /\ fsCtxDone
    /\ fsPc' = "close"
    /\ fsWake' = FALSE
    /\ UNCHANGED <<fsTotal, fsShard, fsBufferSize, fsCtxDone, inCh, inClosed, inSent,
                   fsIndex, outCh, outClosed, othersOfFilter>>

\* defer close(ch)
FsClose ==
    /\ fsPc = "close"
    /\ outClosed' = TRUE
    /\ fsPc' = "done"
    /\ UNCHANGED <<fsTotal, fsShard, fsBufferSize, fsCtxDone, inCh, inClosed, inSent,
                   fsIndex, outCh, fsWake, othersOfFilter>>

\* the steps of the goroutine started by ShardMutations
FsGoroutine == FsStart \/ FsRangeIn \/ FsCheck \/ FsSend \/ FsSendCancelled \/ FsClose

NextFilter == FsProducerSend \/ FsProducerClose \/ FsCancel \/ FsConsumerRecv \/ FsGoroutine

SpecFilter == InitFilter /\ [][NextFilter]_vars

\* the Go scheduler runs a goroutine that can take a step
SpecFilterFair == SpecFilter /\ WF_vars(FsGoroutine)

\* C13: Scheduler cancellation. Once the context is cancelled the channel
\* returned by ShardMutations is eventually closed, whether or not the input
\* channel is ever closed or delivers another mutant.
C13_ShardClosesOnCancel == fsCtxDone ~> outClosed

\* ------------------------------------------------------------------ consecutive runs of workflow.Test
\* the sources w.Get discovers in the unchanged tree
TreeSources == <<"a.go", "b.go">>

\* verdicts the orchestrator returns without an error
Verdicts == {"Killed", "Survived", "Timeout"}

\* changed-source detection of the report store: the sources whose origin hash
\* does not appear in the index of the reports directory
CheckUpdates(idx, sources) == SelectSeq(sources, LAMBDA p : cHash[p] \notin idx)

\* every source CheckUpdates returns is a current one, so none counts as deleted
GetChangedSources(use, idx, sources) ==
    IF ~use THEN sources ELSE CheckUpdates(idx, sources)

RECURSIVE GenerateAllMutations(_)
GenerateAllMutations(sources) ==
    IF sources = <<>> THEN <<>>
    ELSE [j \in 1..cMuts[Head(sources)] |-> cHash[Head(sources)]]
             \o GenerateAllMutations(Tail(sources))

\* the report store appends the spill of a run to what the directory holds
SaveSpillReports(dir, reportsSpill) == dir \o reportsSpill

\* the index lists the source hashes of the reports in the directory
RegenerateIndex(dir) == {dir[i].hash : i \in DOMAIN dir}

InitCache ==
    /\ BranchIdle
    /\ PipeIdle
    /\ UiIdle
    /\ TuiIdle
    /\ FlagIdle
    /\ SpillIdle
    /\ MergeIdle
    /\ ShardIdle
    /\ OrchIdle
    /\ TestIdle
    /\ ScoreIdle
    /\ MutagenIdle
    /\ FilterIdle
    /\ useCache \in BOOLEAN
    /\ cHash \in [Paths -> HashValues]
    /\ cMuts \in [Paths -> 0..MaxMutPerSource]
    /\ \A p, q \in Paths : cHash[p] = cHash[q] => cMuts[p] = cMuts[q]
    /\ cPc = "get"
    /\ cMutations = <<>>
    /\ cSpill = <<>>
    /\ cScore = [num |-> 0, den |-> 1]
    /\ cDir = <<>>
    /\ cIndex = {}
    /\ cRuns = <<>>

\* Test: GetMutations (unsharded run)
CacheGetMutations ==
    /\ cPc = "get"
    /\ cMutations' = GenerateAllMutations(GetChangedSources(useCache, cIndex, TreeSources))
    /\ cPc' = "test"
    /\ UNCHANGED <<useCache, cHash, cMuts, cSpill, cScore, cDir, cIndex, cRuns, othersOfCache>>

\* Test: TestReports starts from a new spill and appends one report per mutation;
\* an orchestrator error makes Test return before anything is saved
CacheTestReports ==
    /\ cPc = "test"
    /\ \E ok \in BOOLEAN :
        IF ok
        THEN /\ \E verdicts \in [DOMAIN cMutations -> Verdicts] :
                  cSpill' = [i \in DOMAIN cMutations |->
                                [hash |-> cMutations[i], result |-> <<verdicts[i]>>]]
             /\ cPc' = "score"
        ELSE /\ cMutations # <<>>
             /\ cPc' = "done"
             /\ UNCHANGED cSpill
    /\ UNCHANGED <<useCache, cHash, cMuts, cMutations, cScore, cDir, cIndex, cRuns,
                   othersOfCache>>

\* Test: the score is computed over the spill returned by TestReports and displayed
CacheScore ==
    /\ cPc = "score"
    /\ cScore' = MutationScoreFromReports([i \in DOMAIN cSpill |-> cSpill[i].result])
    /\ cPc' = "save"
    /\ UNCHANGED <<useCache, cHash, cMuts, cMutations, cSpill, cDir, cIndex, cRuns,
                   othersOfCache>>

\* Test: SaveSpillReports, Close, RegenerateIndex, return; then the next run
CacheSave ==
    /\ cPc = "save"
    /\ cDir' = SaveSpillReports(cDir, cSpill)
    /\ cIndex' = RegenerateIndex(cDir')
    /\ cRuns' = Append(cRuns, [score |-> cScore, appended |-> Len(cDir') - Len(cDir)])
    /\ cPc' = IF Len(cRuns') < MaxRuns THEN "get" ELSE "done"
    /\ cSpill' = <<>>
    /\ cMutations' = <<>>
    /\ UNCHANGED <<useCache, cHash, cMuts, cScore, othersOfCache>>

NextCache == CacheGetMutations \/ CacheTestReports \/ CacheScore \/ CacheSave

SpecCache == InitCache /\ [][NextCache]_vars

\* C20: Cache idempotence. With use_cache enabled, the second of two
\* consecutive runs of Test over the unchanged tree and the same reports
\* directory appends no report entry and yields the score of the first run.
C20_CacheIdempotence ==
    (useCache /\ Len(cRuns) >= 2)
        => /\ cRuns[2].appended = 0
           /\ cRuns[2].score = cRuns[1].score

\* ------------------------------------------------------------------ workflow.Merge
MaxShardReports == 1   \* most reports in one shard directory
MaxBaseReports == 1    \* most reports in the base directory before the merges

\* the decimal digits that follow ShardDirPrefix in a directory name:
\* shard_1, shard_2 and shard_10
ShardNames == {<<1>>, <<2>>, <<1, 0>>}

RECURSIVE LexLess(_, _)
\* byte-wise comparison of two strings
LexLess(a, b) ==
    IF a = <<>> THEN b # <<>>
    ELSE IF b = <<>> THEN FALSE
    ELSE IF a[1] # b[1] THEN a[1] < b[1]
    ELSE LexLess(Tail(a), Tail(b))

RECURSIVE DecimalValue(_)
DecimalValue(digits) ==
    IF digits = <<>> THEN 0
    ELSE 10 * DecimalValue(SubSeq(digits, 1, Len(digits) - 1)) + digits[Len(digits)]

RECURSIVE SortNumeric(_)
\* orders the names by shard number
SortNumeric(names) ==
    IF names = {} THEN <<>>
    ELSE LET mn == CHOOSE x \in names :
                      \A y \in names \ {x} : DecimalValue(x) < DecimalValue(y)
         IN <<mn>> \o SortNumeric(names \ {mn})

RECURSIVE SortStrings(_)
\* sort.Strings
SortStrings(names) ==
    IF names = {} THEN <<>>
    ELSE LET mn == CHOOSE x \in names : \A y \in names \ {x} : LexLess(x, y)
         IN <<mn>> \o SortStrings(names \ {mn})

\* findShardDirs: the shard_* directories under the base, sorted
FindShardDirs(present) == SortStrings(present)

\* LoadReports of a shard directory: its reports in stored order
LoadReports(name) == [k \in 1..mShardLen[name] |-> <<name, k>>]

RECURSIVE LoadShards(_)
\* the loop of mergeReports over shardDirs
LoadShards(dirs) ==
    IF dirs = <<>> THEN <<>>
    ELSE LoadReports(Head(dirs)) \o LoadShards(Tail(dirs))

\* forgets the reports already in the base
MergeReportsDropBase(existingReports, dirs) == LoadShards(dirs)

\* mergeReports: the existing reports of the base, then every shard's
MergeReports(existingReports, dirs) == existingReports \o LoadShards(dirs)

\* SaveReports writes the given reports as the content of the directory
SaveReports(old, reportsToSave) == reportsToSave

InitMerge ==
    /\ BranchIdle
    /\ PipeIdle
    /\ UiIdle
    /\ TuiIdle
    /\ FlagIdle
    /\ SpillIdle
    /\ ShardIdle
    /\ OrchIdle
    /\ TestIdle
    /\ ScoreIdle
    /\ MutagenIdle
    /\ FilterIdle
    /\ CacheIdle
    /\ mBase0 \in {[k \in 1..n |-> <<<<>>, k>>] : n \in 0..MaxBaseReports}
    /\ mShardLen \in [ShardNames -> 0..MaxShardReports]
    /\ mBase = mBase0
    /\ mPresent = {}
    /\ mArrived = {}
    /\ mPc = "idle"
    /\ shardDirs = <<>>
    /\ merged = <<>>
    /\ mPre = [base |-> <<>>, present |-> {}]
    /\ mergeErr = "none"
    /\ mFailed = FALSE
    /\ mRun = "first"
    /\ mFinals = {}

\* the return of Merge with an error
MergeFails(what) ==
    /\ mergeErr' = what
    /\ mFailed' = TRUE
    /\ mPc' = "idle"

\* the CI job of some shards has finished: their directories appear under the base
MergeShardsArrive ==
    /\ mPc = "idle"
    /\ \E names \in (SUBSET (ShardNames \ mArrived)) \ {{}} :
        /\ mPresent' = mPresent \cup names
        /\ mArrived' = mArrived \cup names
    /\ UNCHANGED <<mBase0, mShardLen, mBase, mPc, shardDirs, merged, mPre, mergeErr, mFailed,
                   mRun, mFinals, othersOfMerge>>

\* Merge: findShardDirs; with no shard directory only the index is regenerated
MergeFindShardDirs ==
    /\ mPc = "idle"
    /\ ~mFailed
    /\ mPre' = [base |-> mBase, present |-> mPresent]
    /\ \E ok \in BOOLEAN :
        IF ~ok
        THEN /\ MergeFails("find shard directories")
             /\ UNCHANGED shardDirs
        ELSE /\ shardDirs' = FindShardDirs(mPresent)
             /\ IF shardDirs' = <<>>
                THEN \E indexed \in BOOLEAN :
                        IF indexed
                        THEN /\ mergeErr' = "nil"
                             /\ mPc' = "idle"
                             /\ UNCHANGED mFailed
                        ELSE MergeFails("regenerate index")
                ELSE /\ mPc' = "load"
                     /\ UNCHANGED <<mergeErr, mFailed>>
    /\ UNCHANGED <<mBase0, mShardLen, mBase, mPresent, mArrived, merged, mRun, mFinals,
                   othersOfMerge>>

\* the errors mergeReports returns
LoadErrors == {"load existing reports from base", "load shard reports"}

MergeLoadReportsEmptiesBase ==
    /\ mPc = "load"
    /\ \E what \in LoadErrors : MergeFails(what)
    /\ mBase' = <<>>
    /\ UNCHANGED <<mBase0, mShardLen, mPresent, mArrived, shardDirs, merged, mPre, mRun,
                   mFinals, othersOfMerge>>

\* Merge: mergeReports; a LoadReports error ends the merge
MergeLoadReports ==
    /\ mPc = "load"
    /\ \E ok \in BOOLEAN :
        IF ok
        THEN /\ merged' = MergeReports(mBase, shardDirs)
             /\ mPc' = "save"
             /\ UNCHANGED <<mergeErr, mFailed>>
        ELSE /\ \E what \in LoadErrors : MergeFails(what)
             /\ UNCHANGED merged
    /\ UNCHANGED <<mBase0, mShardLen, mBase, mPresent, mArrived, shardDirs, mPre, mRun,
                   mFinals, othersOfMerge>>

\* saveMergedReports: SaveReports
MergeSaveReports ==
    /\ mPc = "save"
    /\ \E ok \in BOOLEAN :
        IF ok
        THEN /\ mBase' = SaveReports(mBase, merged)
             /\ mPc' = "index"
             /\ UNCHANGED <<mergeErr, mFailed>>
        ELSE /\ MergeFails("save merged reports")
             /\ UNCHANGED mBase
    /\ UNCHANGED <<mBase0, mShardLen, mPresent, mArrived, shardDirs, merged, mPre, mRun,
                   mFinals, othersOfMerge>>

\* saveMergedReports: regenerateIndex
MergeRegenerateIndex ==
    /\ mPc = "index"
    /\ \E ok \in BOOLEAN :
        IF ok
        THEN /\ mPc' = "remove"
             /\ UNCHANGED <<mergeErr, mFailed>>
        ELSE MergeFails("regenerate index")
    /\ UNCHANGED <<mBase0, mShardLen, mBase, mPresent, mArrived, shardDirs, merged, mPre,
                   mRun, mFinals, othersOfMerge>>

\* removeShardDirs: os.RemoveAll of each shard directory, stopping at the first error
MergeRemoveShardDirs ==
    /\ mPc = "remove"
    /\ \E removed \in 0..Len(shardDirs) :
        /\ mPresent' = mPresent \ {shardDirs[i] : i \in 1..removed}
        /\ IF removed = Len(shardDirs)
           THEN /\ mergeErr' = "nil"
                /\ mPc' = "idle"
                /\ UNCHANGED mFailed
           ELSE MergeFails("remove shard directory")
    /\ UNCHANGED <<mBase0, mShardLen, mBase, mArrived, shardDirs, merged, mPre, mRun,
                   mFinals, othersOfMerge>>

\* every shard has been merged, or a Merge has failed and the run is given up:
\* the base of a run without failure is kept for comparison and the next run
\* starts from the same base and shards
MergeRunDone ==
    /\ mPc = "idle"
    /\ (mArrived = ShardNames /\ mPresent = {}) \/ mFailed
    /\ mPresent' = {}
    /\ mFinals' = IF mFailed THEN mFinals ELSE mFinals \cup {mBase}
    /\ IF mRun = "first"
       THEN /\ mRun' = "second"
            /\ mBase' = mBase0
            /\ mArrived' = {}
            /\ mFailed' = FALSE
            /\ mergeErr' = "none"
            /\ mPre' = [base |-> <<>>, present |-> {}]
            /\ UNCHANGED mPc
       ELSE /\ mPc' = "done"
            /\ UNCHANGED <<mRun, mBase, mArrived, mFailed, mergeErr, mPre>>
    /\ UNCHANGED <<mBase0, mShardLen, shardDirs, merged, othersOfMerge>>

NextMerge ==
    \/ MergeShardsArrive
    \/ MergeFindShardDirs
    \/ MergeLoadReports
    \/ MergeSaveReports
    \/ MergeRegenerateIndex
    \/ MergeRemoveShardDirs
    \/ MergeRunDone

SpecMerge == InitMerge /\ [][NextMerge]_vars

\* the reports of the named shards, the names taken in the given order
ShardReportsIn(order) == LoadShards(order)

HasStatus(report, status) ==
    \E e \in DOMAIN report.result :
        report.result[e].id = report.mut /\ report.result[e].status = status

\* C23: Diff attachment. Every report appended to the reports spill carries a
\* diff exactly when the result entry for its mutation has status Survived.
C23_DiffAttachment ==
    \A k \in DOMAIN reports : reports[k].diff <=> HasStatus(reports[k], "Survived")

C23_Witness ==
    \E k, l \in DOMAIN reports :
        /\ reports[k].diff /\ HasStatus(reports[k], "Survived")
        /\ ~reports[l].diff /\ HasStatus(reports[l], "Timeout")

PerMutationEvents == {"StartingTest", "CompletedTest"}

\* C24: Progress event order. In a successful run of Test the sink received
\* Start, ConcurrencyInfo, UpcomingTests, then only StartingTest and
\* CompletedTest events, then MutationScore, then Close; and in every run no
\* StartingTest or CompletedTest comes before UpcomingTests or after MutationScore.
C24_ProgressEventOrder ==
    /\ \A k \in DOMAIN uiEvents :
        uiEvents[k].ev \in PerMutationEvents =>
            /\ \E j \in 1..(k - 1) : uiEvents[j].ev = "UpcomingTests"
            /\ \A j \in 1..(k - 1) : uiEvents[j].ev # "MutationScore"
    /\ (testPc = "returned" /\ testRet = "nil") =>
        LET n == Len(uiEvents) IN
            /\ n >= 5
            /\ uiEvents[1].ev = "Start"
            /\ uiEvents[2].ev = "ConcurrencyInfo"
            /\ uiEvents[3].ev = "UpcomingTests"
            /\ \A k \in 4..(n - 2) : uiEvents[k].ev \in PerMutationEvents
            /\ uiEvents[n - 1].ev = "MutationScore"
            /\ uiEvents[n].ev = "Close"

C24_Witness ==
    /\ testPc = "returned"
    /\ testRet = "nil"
    /\ Len(uiEvents) = 9
    /\ uiEvents[4].ev = "StartingTest"
    /\ uiEvents[5].ev = "StartingTest"

\* the positions of the events of one kind for mutation i
EventsAt(ev, i) == {k \in DOMAIN uiEvents : uiEvents[k] = Event(ev, i)}

\* C25: Start/complete pairing. No CompletedTest of a mutation comes without an
\* earlier StartingTest of it, and once Test has returned every StartingTest
\* of a mutation has exactly one CompletedTest of that mutation after it.
C25_StartCompletePairing ==
    /\ \A i \in Mutations : \A c \in EventsAt("CompletedTest", i) :
        \E s \in EventsAt("StartingTest", i) : s < c
    /\ testPc = "returned" =>
        \A i \in Mutations : \A s \in EventsAt("StartingTest", i) :
            Cardinality({c \in EventsAt("CompletedTest", i) : c > s}) = 1

\* TestReports has returned to Test
TestReportsReturned ==
    \/ testPc \in {"score", "save", "close", "index"}
    \/ testPc \in {"closeUI", "returned"} /\ nextMut > shardSize /\ shardSize > 0

ReportsOf(i) == {k \in DOMAIN reports : reports[k].mut = i}

\* C26: Exactly-once consumption. No mutation is handed to the orchestrator
\* twice; once TestReports has returned each mutation has been handed to it
\* once, the spill holds at most one report for each mutation, every report has
\* a verdict entry for its own mutation, and a mutation for which the
\* orchestrator returned an error has no report.
C26_ExactlyOnce ==
    /\ \A i \in Mutations : handed[i] <= 1
    /\ TestReportsReturned =>
        /\ \A i \in Mutations : handed[i] = 1
        /\ \A i \in Mutations : Cardinality(ReportsOf(i)) <= 1
        /\ \A k \in DOMAIN reports :
            \E e \in DOMAIN reports[k].result : reports[k].result[e].id = reports[k].mut
        /\ \A i \in Mutations : wResult[i] = <<>> => ReportsOf(i) = {}

C26_Witness ==
    /\ TestReportsReturned
    /\ shardSize = 2
    /\ Len(reports) = 1
    /\ Len(errors) = 1
    /\ \E i \in Mutations : wResult[i] = <<>> /\ handed[i] = 1

\* the mutations whose TestMutation call is in flight
InFlight == {i \in Mutations : wpc[i] = "testing"}

\* C27: Worker pool bound. Never more than max(1, threads) mutations are being
\* tested at once, and no two mutations in flight have the same workspace.
C27_WorkerPoolBound ==
    /\ Cardinality(InFlight) <= (IF threads > 1 THEN threads ELSE 1)
    /\ \A i, j \in InFlight :
        (i # j /\ workspaceOf[i] # 0) => workspaceOf[i] # workspaceOf[j]

C27_Witness ==
    /\ threads = 2
    /\ Cardinality(InFlight) = 2
    /\ \A i \in InFlight : workspaceOf[i] # 0

\* ------------------------------------------------------------------ SpecSpill
MaxAppends == 2        \* most Append calls made on the spill, AppendBatch counting one per item

\* the goroutines calling Append and AppendBatch
Writers == {"w1", "w2"}

\* the item type T is a struct of two int fields, each 0 (the zero value) or 1
Fields == {"X", "Y"}

Items == [Fields -> {0, 1}]

\* var item T
Zero == [f \in Fields |-> 0]

\* the argument of a call: one item for Append, a slice of two for AppendBatch
Batches == [1..1 -> Items] \cup [1..2 -> Items]

\* gob.Encoder.Encode of a struct: the message holds the fields whose value is
\* not the zero value of their type, a field of zero value is omitted
GobEncode(item) == {<<f, item[f]>> : f \in {g \in Fields : item[g] # 0}}

\* gob.Decoder.Decode(&item): the fields the message holds are set, the other
\* fields of the variable keep the value they had
GobDecode(msg, into) ==
    [f \in Fields |-> IF \E e \in msg : e[1] = f
                      THEN (CHOOSE e \in msg : e[1] = f)[2]
                      ELSE into[f]]

\* the loop of Get: the first count messages decoded in turn into one variable
RECURSIVE DecodeInto(_, _, _)
DecodeInto(file, count, item) ==
    IF count = 0 THEN item
    ELSE GobDecode(file[count], DecodeInto(file, count - 1, item))

\* fileSpillImpl.Get
GetItem(file, length, index) ==
    IF index >= length
    THEN [err |-> "index out of bounds", item |-> Zero]
    ELSE [err |-> "nil", item |-> DecodeInto(file, index + 1, Zero)]

InitSpill ==
    /\ BranchIdle
    /\ PipeIdle
    /\ UiIdle
    /\ TuiIdle
    /\ FlagIdle
    /\ MergeIdle
    /\ ShardIdle
    /\ OrchIdle
    /\ TestIdle
    /\ ScoreIdle
    /\ MutagenIdle
    /\ FilterIdle
    /\ CacheIdle
    /\ spFile = <<>>
    /\ spLength = 0
    /\ spMu = ""
    /\ spClosed = FALSE
    /\ spQueue = [w \in Writers |-> <<>>]
    /\ spPc = [w \in Writers |-> "idle"]
    /\ spFailed = [w \in Writers |-> FALSE]
    /\ spCalls = 0
    /\ spAppended = <<>>
    /\ rPc = "idle"
    /\ rN = 0
    /\ rI = 0
    /\ rItem = Zero
    /\ rSeen = <<>>
    /\ rErr = "none"
    /\ rAfterAll = FALSE
    /\ gGot = {}

\* a writer calls Append(item) or AppendBatch(items), at most `most` items
\* being appended in all
FileSpillCallUpTo(w, most) ==
    /\ spPc[w] = "idle"
    /\ \E items \in Batches :
        /\ spCalls + Len(items) <= most
        /\ spQueue' = [spQueue EXCEPT ![w] = items]
        /\ spCalls' = spCalls + Len(items)
    /\ spPc' = [spPc EXCEPT ![w] = "lock"]
    /\ spFailed' = [spFailed EXCEPT ![w] = FALSE]
    /\ UNCHANGED <<spFile, spLength, spMu, spClosed, spAppended, rPc, rN, rI, rItem, rSeen,
                   rErr, rAfterAll, gGot, othersOfSpill>>

FileSpillCall(w) == FileSpillCallUpTo(w, MaxAppends)

\* Append: f.mu.Lock()
FileSpillAppendLock(w) ==
    /\ spPc[w] = "lock"
    /\ spMu = ""
    /\ spMu' = w
    /\ spPc' = [spPc EXCEPT ![w] = "encode"]
    /\ UNCHANGED <<spFile, spLength, spClosed, spQueue, spFailed, spCalls, spAppended, rPc, rN,
                   rI, rItem, rSeen, rErr, rAfterAll, gGot, othersOfSpill>>

\* Append: f.encoder.Encode(item), which fails on a closed file, and f.length++
FileSpillAppendEncode(w) ==
    /\ spPc[w] = "encode"
    /\ IF spClosed
       THEN /\ spFailed' = [spFailed EXCEPT ![w] = TRUE]
            /\ UNCHANGED <<spFile, spLength, spAppended>>
       ELSE /\ spFile' = Append(spFile, GobEncode(Head(spQueue[w])))
            /\ spLength' = spLength + 1
            /\ spAppended' = Append(spAppended,
                    [writer |-> w, item |-> Head(spQueue[w]), index |-> spLength,
                     left |-> Len(spQueue[w]) - 1])
            /\ UNCHANGED spFailed
    /\ spPc' = [spPc EXCEPT ![w] = "unlock"]
    /\ UNCHANGED <<spMu, spClosed, spQueue, spCalls, rPc, rN, rI, rItem, rSeen, rErr,
                   rAfterAll, gGot, othersOfSpill>>

\* Append: the deferred f.mu.Unlock(); AppendBatch goes on with its next item,
\* or returns the error of the Append that failed
FileSpillAppendUnlock(w) ==
    /\ spPc[w] = "unlock"
    /\ spMu' = ""
    /\ IF spFailed[w] \/ Len(spQueue[w]) = 1
       THEN /\ spQueue' = [spQueue EXCEPT ![w] = <<>>]
            /\ spPc' = [spPc EXCEPT ![w] = "idle"]
       ELSE /\ spQueue' = [spQueue EXCEPT ![w] = Tail(spQueue[w])]
            /\ spPc' = [spPc EXCEPT ![w] = "lock"]
    /\ UNCHANGED <<spFile, spLength, spClosed, spFailed, spCalls, spAppended, rPc, rN, rI,
                   rItem, rSeen, rErr, rAfterAll, gGot, othersOfSpill>>

\* fileSpillImpl.Close, under f.mu
FileSpillClose ==
    /\ spMu = ""
    /\ ~spClosed
    /\ spClosed' = TRUE
    /\ UNCHANGED <<spFile, spLength, spMu, spQueue, spPc, spFailed, spCalls, spAppended, rPc,
                   rN, rI, rItem, rSeen, rErr, rAfterAll, gGot, othersOfSpill>>

\* fileSpillImpl.Get(index), under f.mu
FileSpillGet ==
    /\ spMu = ""
    /\ gGot = {}
    /\ \E index \in 0..MaxAppends :
        LET got == GetItem(spFile, spLength, index) IN
            gGot' = {[index |-> index, length |-> spLength, err |-> got.err, item |-> got.item]}
    /\ UNCHANGED <<spFile, spLength, spMu, spClosed, spQueue, spPc, spFailed, spCalls,
                   spAppended, rPc, rN, rI, rItem, rSeen, rErr, rAfterAll, othersOfSpill>>

\* Range: f.mu.Lock(), os.Open, and the bound of the loop, f.length
FileSpillRangeEnter ==
    /\ rPc = "idle"
    /\ spMu = ""
    /\ spMu' = "range"
    /\ rN' = spLength
    /\ rI' = 0
    /\ rItem' = Zero
    /\ rPc' = "loop"
    /\ rAfterAll' = (\A w \in Writers : spPc[w] = "idle")
    /\ UNCHANGED <<spFile, spLength, spClosed, spQueue, spPc, spFailed, spCalls, spAppended,
                   rSeen, rErr, gGot, othersOfSpill>>

\* Range: one round of the loop: decoder.Decode(&item) and fn(i, item); when
\* fn returns an error Range returns it, the deferred Unlock runs
FileSpillRangeStep ==
    /\ rPc = "loop"
    /\ rI < rN
    /\ rItem' = GobDecode(spFile[rI + 1], rItem)
    /\ rSeen' = Append(rSeen, [index |-> rI, item |-> rItem'])
    /\ \E fnOk \in BOOLEAN :
        IF fnOk
        THEN /\ rI' = rI + 1
             /\ UNCHANGED <<rPc, rErr, spMu>>
        ELSE /\ rErr' = "callback error"
             /\ rPc' = "returned"
             /\ spMu' = ""
             /\ UNCHANGED rI
    /\ UNCHANGED <<spFile, spLength, spClosed, spQueue, spPc, spFailed, spCalls, spAppended,
                   rN, rAfterAll, gGot, othersOfSpill>>

\* Range: the loop is over, return nil, the deferred Unlock runs
FileSpillRangeReturn ==
    /\ rPc = "loop"
    /\ rI = rN
    /\ rErr' = "nil"
    /\ rPc' = "returned"
    /\ spMu' = ""
    /\ UNCHANGED <<spFile, spLength, spClosed, spQueue, spPc, spFailed, spCalls, spAppended,
                   rN, rI, rItem, rSeen, rAfterAll, gGot, othersOfSpill>>

NextSpill ==
    \/ \E w \in Writers : FileSpillCall(w)
    \/ \E w \in Writers : FileSpillAppendLock(w)
    \/ \E w \in Writers : FileSpillAppendEncode(w)
    \/ \E w \in Writers : FileSpillAppendUnlock(w)
    \/ FileSpillClose
    \/ FileSpillGet
    \/ FileSpillRangeEnter
    \/ FileSpillRangeStep
    \/ FileSpillRangeReturn

SpecSpill == InitSpill /\ [][NextSpill]_vars

\* C28: Spill index density. Len() is the number of items appended
\* successfully, and Get(i) returns without error the item of the i-th
\* successful Append when i < Len(), and fails when i >= Len().
C28_SpillIndexDensity ==
    /\ spLength = Len(spAppended)
    /\ \A g \in gGot :
        IF g.index < g.length
        THEN g.err = "nil" /\ g.item = spAppended[g.index + 1].item
        ELSE g.err # "nil"

\* C29: Spill range snapshot. Range calls the callback once for each index
\* 0, 1, ..., n-1 in increasing order, with the item appended at that index,
\* n being Len() when Range took the spill; it stops before n only when the
\* callback returned an error, and returns that error.
C29_SpillRangeSnapshot ==
    /\ Len(rSeen) <= rN
    /\ \A k \in DOMAIN rSeen :
        rSeen[k].index = k - 1 /\ rSeen[k].item = spAppended[k].item
    /\ rPc = "returned" =>
        IF rErr = "nil" THEN Len(rSeen) = rN ELSE rErr = "callback error"

\* the items of a sequence of records with an item field
ItemsOf(seq) == [k \in DOMAIN seq |-> seq[k].item]

\* C30: Concurrent appends are not lost. Every successful Append has an index
\* of its own; once every call has returned Len() is the number of successful
\* calls, and a Range made then yields every appended item exactly once.
C30_ConcurrentAppendsKept ==
    /\ \A a, b \in DOMAIN spAppended :
        a # b => spAppended[a].index # spAppended[b].index
    /\ (\A w \in Writers : spPc[w] = "idle") => spLength = Len(spAppended)
    /\ (rPc = "returned" /\ rAfterAll /\ rErr = "nil") =>
        \A item \in Items :
            Count(ItemsOf(rSeen), item) = Count(ItemsOf(SubSeq(spAppended, 1, rN)), item)

\* ------------------------------------------------------------------ Test: thread slots
SpecSlots == InitSlots /\ [][NextTest]_vars

\* the mutations whose StartingTest was emitted and whose goroutine has not returned
Started == {i \in Mutations : wpc[i] \in {"test", "testing", "lock", "append", "completed"}}

\* C35: Thread slot exclusivity. At every moment the mutations in flight have
\* pairwise distinct thread IDs, each in 0..threads-1.
C35_ThreadSlotExclusive ==
    /\ \A i \in Started : threadID[i] \in 0..(threads - 1)
    /\ \A i, j \in Started : i # j => threadID[i] # threadID[j]

MergeRetry ==
    /\ mPc = "idle"
    /\ mFailed
    /\ mRun = "first"
    /\ mFailed' = FALSE
    /\ mRun' = "retried"
    /\ UNCHANGED <<mBase0, mShardLen, mBase, mPresent, mArrived, mPc, shardDirs, merged, mPre,
                   mergeErr, mFinals, othersOfMerge>>

NextMergeRetry ==
    \/ NextMerge
    \/ MergeRetry

SpecMergeRetry == InitMerge /\ [][NextMergeRetry]_vars

NextBatch ==
    \/ \E w \in Writers : FileSpillCallUpTo(w, MaxAppends + 1)
    \/ \E w \in Writers : FileSpillAppendLock(w)
    \/ \E w \in Writers : FileSpillAppendEncode(w)
    \/ \E w \in Writers : FileSpillAppendUnlock(w)
    \/ FileSpillClose

SpecBatch == InitSpill /\ [][NextBatch]_vars

\* the positions in the spill of the items writer w appended
AppendedBy(w) == {k \in DOMAIN spAppended : spAppended[k].writer = w}

\* positions k < j hold consecutive items of one AppendBatch call: the same
\* writer appended both, nothing of that writer's lies between, and the call
\* had one item more to append at k than at j
SameBatch(k, j) ==
    /\ k < j
    /\ spAppended[k].writer = spAppended[j].writer
    /\ spAppended[k].left = spAppended[j].left + 1
    /\ \A i \in AppendedBy(spAppended[k].writer) : i <= k \/ i >= j

\* C38 (first half): the items of one AppendBatch call occupy consecutive indices
BatchContiguous ==
    \A k, j \in DOMAIN spAppended : SameBatch(k, j) => j = k + 1

\* C38 (second half): a call that returned an error has left nothing in the
\* spill: the last item of its writer there ended an earlier call
BatchErrorKeepsLen ==
    \A w \in Writers :
        (spPc[w] = "idle" /\ spFailed[w]) =>
            \A k \in AppendedBy(w) :
                (\A i \in AppendedBy(w) : i <= k) => spAppended[k].left = 0

\* C38: Batch contiguity. The items of a successful AppendBatch call occupy
\* consecutive indices in the order of the batch, also when another goroutine
\* appends concurrently; and after an AppendBatch that returned an error Len()
\* is what it was before the call.
C38_BatchContiguity == BatchContiguous /\ BatchErrorKeepsLen

\* ------------------------------------------------------------------ SpecFlag
MaxFlagLen == 4        \* longest --shard string

DigitChars == {"0", "1", "2"}

\* the characters of the --shard strings
FlagChars == DigitChars \cup {"/", "-", " ", "x"}

DigitValue(c) == IF c = "0" THEN 0 ELSE IF c = "1" THEN 1 ELSE 2

FlagStrings == UNION {[1..n -> FlagChars] : n \in 0..MaxFlagLen}

\* the first position at or after pos that holds no space (Len(s) + 1 when none)
RECURSIVE SkipSpace(_, _)
SkipSpace(s, pos) ==
    IF pos <= Len(s) /\ s[pos] = " " THEN SkipSpace(s, pos + 1) ELSE pos

\* the first position at or after pos that holds no digit
RECURSIVE SkipDigits(_, _)
SkipDigits(s, pos) ==
    IF pos <= Len(s) /\ s[pos] \in DigitChars THEN SkipDigits(s, pos + 1) ELSE pos

\* the decimal value of the digits s[from..to]
RECURSIVE Decimal(_, _, _)
Decimal(s, from, to) ==
    IF to < from THEN 0 ELSE 10 * Decimal(s, from, to - 1) + DigitValue(s[to])

\* the verb %d of fmt.Sscanf at pos: leading spaces are discarded, then an
\* optional sign and at least one digit are read
ScanInt(s, pos) ==
    LET start == SkipSpace(s, pos)
        neg == start <= Len(s) /\ s[start] = "-"
        first == IF neg THEN start + 1 ELSE start
        next == SkipDigits(s, first)
    IN  IF next = first
        THEN [ok |-> FALSE, value |-> 0, next |-> next]
        ELSE [ok |-> TRUE,
              value |-> IF neg THEN 0 - Decimal(s, first, next - 1)
                        ELSE Decimal(s, first, next - 1),
              next |-> next]

\* fmt.Sscanf(shard, "%d/%d", &index, &total): the input left after the
\* second number is not looked at
Sscanf(s) ==
    LET a == ScanInt(s, 1) IN
    IF ~a.ok \/ a.next > Len(s) \/ s[a.next] # "/"
    THEN [err |-> TRUE, index |-> IF a.ok THEN a.value ELSE 0, total |-> 0]
    ELSE LET b == ScanInt(s, a.next + 1) IN
         [err |-> ~b.ok, index |-> a.value, total |-> IF b.ok THEN b.value ELSE 0]

\* parseShardFlag
ParseShardFlag(s) ==
    IF s = <<>> THEN [index |-> 0, total |-> 1]
    ELSE LET r == Sscanf(s) IN
         IF r.err \/ r.total <= 0 \/ r.index < 0 \/ r.index >= r.total
         THEN [index |-> 0, total |-> 1]
         ELSE [index |-> r.index, total |-> r.total]

InitFlag ==
    /\ BranchIdle
    /\ PipeIdle
    /\ UiIdle
    /\ TuiIdle
    /\ SpillIdle
    /\ MergeIdle
    /\ ShardIdle
    /\ OrchIdle
    /\ TestIdle
    /\ ScoreIdle
    /\ MutagenIdle
    /\ FilterIdle
    /\ CacheIdle
    /\ shardFlag \in FlagStrings
    /\ flagPc = "call"
    /\ flagIndex = 0
    /\ flagTotal = 1

\* runCmd: shardIndex, totalShards := parseShardFlag(runShardFlag)
RunParseShardFlag ==
    /\ flagPc = "call"
    /\ flagIndex' = ParseShardFlag(shardFlag).index
    /\ flagTotal' = ParseShardFlag(shardFlag).total
    /\ flagPc' = "returned"
    /\ UNCHANGED <<shardFlag, othersOfFlag>>

NextFlag == RunParseShardFlag

SpecFlag == InitFlag /\ [][NextFlag]_vars

\* the string is INDEX/TOTAL: two decimal numerals, each with or without a
\* sign, with a slash between them and nothing else
IsIndexTotal(s) ==
    LET a == ScanInt(s, 1) IN
    /\ s # <<>> /\ s[1] # " "
    /\ a.ok /\ a.next < Len(s) /\ s[a.next] = "/" /\ s[a.next + 1] # " "
    /\ ScanInt(s, a.next + 1).ok
    /\ ScanInt(s, a.next + 1).next = Len(s) + 1

\* the numbers INDEX and TOTAL of such a string
IndexOf(s) == ScanInt(s, 1).value

TotalOf(s) == ScanInt(s, ScanInt(s, 1).next + 1).value

\* C33: Shard flag range. parseShardFlag returns total >= 1 and
\* 0 <= index < total; it returns the parsed pair when the string is
\* INDEX/TOTAL with 0 <= INDEX < TOTAL, and (0, 1) for every other string.
C33_ShardFlagRange ==
    flagPc = "returned" =>
        /\ flagTotal >= 1 /\ 0 <= flagIndex /\ flagIndex < flagTotal
        /\ IF /\ IsIndexTotal(shardFlag)
              /\ 0 <= IndexOf(shardFlag) /\ IndexOf(shardFlag) < TotalOf(shardFlag)
           THEN flagIndex = IndexOf(shardFlag) /\ flagTotal = TotalOf(shardFlag)
           ELSE flagIndex = 0 /\ flagTotal = 1

\* ------------------------------------------------------------------ SpecTui
MaxCloses == 2         \* most Close calls counted

InitTui ==
    /\ BranchIdle
    /\ PipeIdle
    /\ UiIdle
    /\ FlagIdle
    /\ SpillIdle
    /\ MergeIdle
    /\ ShardIdle
    /\ OrchIdle
    /\ TestIdle
    /\ ScoreIdle
    /\ MutagenIdle
    /\ FilterIdle
    /\ CacheIdle
    /\ tStarted = FALSE
    /\ tClosed = FALSE
    /\ tCtxDone \in BOOLEAN
    /\ tDone = FALSE
    /\ tQuit = FALSE
    /\ tClosePc = "idle"
    /\ tCloses = 0
    /\ tSkipped = FALSE
    /\ tWaitPc = "idle"

\* the caller's context is cancelled
TuiCancel ==
    /\ ~tCtxDone
    /\ tCtxDone' = TRUE
    /\ UNCHANGED <<tStarted, tClosed, tDone, tQuit, tClosePc, tCloses, tSkipped, tWaitPc,
                   othersOfTui>>

\* Start: returns ctx.Err() when cancelled, else startWithModel starts the
\* program and its goroutine
TuiStart ==
    /\ ~tStarted
    /\ ~tCtxDone
    /\ tStarted' = TRUE
    /\ UNCHANGED <<tClosed, tCtxDone, tDone, tQuit, tClosePc, tCloses, tSkipped, tWaitPc,
                   othersOfTui>>

\* the goroutine of startWithModel: program.Run() returns, because the user
\* quit the UI or the program handled tea.Quit, and close(t.done)
TuiProgramExit(byUser) ==
    /\ tStarted
    /\ ~tDone
    /\ byUser \/ tQuit
    /\ tDone' = TRUE
    /\ tQuit' = FALSE
    /\ UNCHANGED <<tStarted, tClosed, tCtxDone, tClosePc, tCloses, tSkipped, tWaitPc,
                   othersOfTui>>

\* Close up to program.Send(tea.Quit()): it returns at once when the UI is not
\* started or already closed, or when ctx is cancelled
TuiClose ==
    /\ tClosePc = "idle"
    /\ tCloses < MaxCloses
    /\ IF ~tStarted \/ tClosed
       THEN /\ tCloses' = tCloses + 1
            /\ UNCHANGED <<tClosed, tQuit, tClosePc, tSkipped>>
       ELSE IF tCtxDone
       THEN /\ tCloses' = tCloses + 1
            /\ tSkipped' = TRUE
            /\ UNCHANGED <<tClosed, tQuit, tClosePc>>
       ELSE /\ tClosed' = TRUE
            /\ tQuit' = ~tDone
            /\ tClosePc' = "recv"
            /\ UNCHANGED <<tCloses, tSkipped>>
    /\ UNCHANGED <<tStarted, tCtxDone, tDone, tWaitPc, othersOfTui>>

\* Close: <-done
TuiCloseRecv ==
    /\ tClosePc = "recv"
    /\ tDone
    /\ tClosePc' = "idle"
    /\ tCloses' = tCloses + 1
    /\ UNCHANGED <<tStarted, tClosed, tCtxDone, tDone, tQuit, tSkipped, tWaitPc, othersOfTui>>

\* Wait up to its select: it returns at once when the UI is not started
TuiWait ==
    /\ tWaitPc = "idle"
    /\ tWaitPc' = IF tStarted THEN "select" ELSE "returned"
    /\ UNCHANGED <<tStarted, tClosed, tCtxDone, tDone, tQuit, tClosePc, tCloses, tSkipped,
                   othersOfTui>>

\* Wait: select { case <-done: case <-ctx.Done(): }
TuiWaitSelect ==
    /\ tWaitPc = "select"
    /\ tDone \/ tCtxDone
    /\ tWaitPc' = "drain"
    /\ UNCHANGED <<tStarted, tClosed, tCtxDone, tDone, tQuit, tClosePc, tCloses, tSkipped,
                   othersOfTui>>

\* Wait: the receive <-done after the select
TuiWaitDrain ==
    /\ tWaitPc = "drain"
    /\ tDone
    /\ tWaitPc' = "returned"
    /\ UNCHANGED <<tStarted, tClosed, tCtxDone, tDone, tQuit, tClosePc, tCloses, tSkipped,
                   othersOfTui>>

\* what Close, Wait and the program do by themselves
TuiRuns ==
    \/ TuiProgramExit(FALSE)
    \/ TuiCloseRecv
    \/ TuiWaitSelect
    \/ TuiWaitDrain

NextTui ==
    \/ TuiCancel
    \/ TuiStart
    \/ TuiProgramExit(TRUE)
    \/ TuiClose
    \/ TuiWait
    \/ TuiRuns

SpecTui == InitTui /\ [][NextTui]_vars

\* the program handles a Quit sent to it, and Close and Wait go on when they
\* can; the user need never quit, and nobody need ever cancel
SpecTuiFair == SpecTui /\ WF_vars(TuiRuns)

\* C39: UI wait honours cancellation. A Wait in progress on a started UI
\* returns once ctx is cancelled, also when the program has not exited; and a
\* Wait in progress after a Close that was made under a cancelled context
\* returns.
C39_WaitHonoursCancel ==
    /\ (tStarted /\ tCtxDone /\ tWaitPc \in {"select", "drain"}) ~> (tWaitPc = "returned")
    /\ (tSkipped /\ tWaitPc \in {"select", "drain"}) ~> (tWaitPc = "returned")

\* ------------------------------------------------------------------ SpecUi
\* operations run one after the other on one workflow
MaxOps == 2

UiOps == {"Estimate", "PipelineEstimate", "Test", "View"}

\* the fallible calls an operation makes between Start and Wait, named by the
\* error each is wrapped in
Steps(op) ==
    CASE op \in {"Estimate", "PipelineEstimate"} -> <<"generate mutations", "display">>
      [] op = "Test" -> <<"generate mutations", "run mutation tests",
                          "calculate mutation score", "save reports",
                          "close reports spill", "regenerate index">>
      [] op = "View" -> <<"load reports", "extract view items from reports",
                          "calculate mutation score">>

InitUi ==
    /\ BranchIdle
    /\ PipeIdle
    /\ ShardIdle
    /\ OrchIdle
    /\ TestIdle
    /\ ScoreIdle
    /\ MutagenIdle
    /\ FilterIdle
    /\ CacheIdle
    /\ MergeIdle
    /\ SpillIdle
    /\ FlagIdle
    /\ TuiIdle
    /\ UiIdle

\* the operation is called
UiCall(op) ==
    /\ uiPc = "idle"
    /\ Len(uiReturns) < MaxOps
    /\ uiOp' = op
    /\ uiPc' = "start"
    /\ uiStep' = 0
    /\ uiCalls' = <<>>
    /\ uiRet' = "nil"
    /\ UNCHANGED <<uiReturns, othersOfUi>>

\* w.Start(...): when it fails the operation returns its error at once
UiStart ==
    /\ uiPc = "start"
    /\ \E ok \in BOOLEAN :
        IF ok
        THEN /\ uiCalls' = Append(uiCalls, "Start")
             /\ uiPc' = "steps"
             /\ uiStep' = 1
             /\ UNCHANGED uiRet
        ELSE /\ uiRet' = "start ui"
             /\ uiPc' = "return"
             /\ UNCHANGED <<uiCalls, uiStep>>
    /\ UNCHANGED <<uiOp, uiReturns, othersOfUi>>

\* an error branch that returns without closing the UI
OnErrorNone(op) == <<>>

\* what the operation calls on the sink when one of its calls failed: the
\* w.Close() of Estimate's error branches, the deferred w.Close() of withTestUI
OnError(op) == <<"Close">>

\* one fallible call of the operation; when it fails the operation closes the
\* UI and returns the wrapped error
UiStep ==
    /\ uiPc = "steps"
    /\ \E ok \in BOOLEAN :
        IF ok
        THEN /\ IF uiStep < Len(Steps(uiOp))
                THEN uiStep' = uiStep + 1 /\ UNCHANGED uiPc
                ELSE uiPc' = "wait" /\ UNCHANGED uiStep
             /\ UNCHANGED <<uiCalls, uiRet>>
        ELSE /\ uiRet' = Steps(uiOp)[uiStep]
             /\ uiCalls' = uiCalls \o OnError(uiOp)
             /\ uiPc' = "return"
             /\ UNCHANGED uiStep
    /\ UNCHANGED <<uiOp, uiReturns, othersOfUi>>

\* w.Wait() after every call succeeded
UiWait ==
    /\ uiPc = "wait"
    /\ uiCalls' = Append(uiCalls, "Wait")
    /\ uiPc' = "close"
    /\ UNCHANGED <<uiOp, uiStep, uiRet, uiReturns, othersOfUi>>

\* w.Close() on the success path: the last statement of Estimate, the deferred
\* call of withTestUI
UiClose ==
    /\ uiPc = "close"
    /\ uiCalls' = Append(uiCalls, "Close")
    /\ uiPc' = "return"
    /\ UNCHANGED <<uiOp, uiStep, uiRet, uiReturns, othersOfUi>>

\* the operation returns uiRet
UiReturn ==
    /\ uiPc = "return"
    /\ uiReturns' = Append(uiReturns, [op |-> uiOp, calls |-> uiCalls, ret |-> uiRet])
    /\ uiPc' = "idle"
    /\ UNCHANGED <<uiOp, uiStep, uiCalls, uiRet, othersOfUi>>

NextUi ==
    \/ \E op \in UiOps : UiCall(op)
    \/ UiStart
    \/ UiStep
    \/ UiWait
    \/ UiClose
    \/ UiReturn

SpecUi == InitUi /\ [][NextUi]_vars

\* C34: UI close on completion. When Estimate, Test or View returns after a
\* successful Start, it has called Close exactly once; a Wait it made was
\* made before that Close, and only when it returns no error.
C34_UiCloseOnCompletion ==
    \A k \in 1..Len(uiReturns) :
        LET r == uiReturns[k] IN
        (r.calls # <<>> /\ r.calls[1] = "Start") =>
            /\ r.calls \in {<<"Start", "Close">>, <<"Start", "Wait", "Close">>}
            /\ r.ret # "nil" => r.calls = <<"Start", "Close">>

\* an operation returned an error after Start and the next one returned none
C34_Witness ==
    /\ Len(uiReturns) = 2
    /\ uiReturns[1].ret \notin {"nil", "start ui"}
    /\ uiReturns[1].calls = <<"Start", "Close">>
    /\ uiReturns[2].ret = "nil"
    /\ uiReturns[2].calls = <<"Start", "Wait", "Close">>

\* ------------------------------------------------------------------ SpecPipe
\* sources the upstream stages deliver
MaxPipeSources == 2

\* mutations GenerateMutation returns for one source
MaxPipeMutations == 2

\* threads := 1 in workflowPipeline.Estimate: the capacity of the channels and
\* the limit of the workers' errgroup
EstimateThreads == 1

InitPipe ==
    /\ BranchIdle
    /\ ShardIdle
    /\ OrchIdle
    /\ TestIdle
    /\ ScoreIdle
    /\ MutagenIdle
    /\ FilterIdle
    /\ CacheIdle
    /\ MergeIdle
    /\ SpillIdle
    /\ FlagIdle
    /\ TuiIdle
    /\ UiIdle
    /\ plUpLeft \in 0..MaxPipeSources
    /\ plSources = 0
    /\ plSourcesClosed = FALSE
    /\ plUpErr = "open"
    /\ plGenErr = "open"
    /\ plMerged = "open"
    /\ plCh1Nil = FALSE
    /\ plCh2Nil = FALSE
    /\ plDispatch = "select"
    /\ plWorker = "idle"
    /\ plToSend = 0
    /\ plGroupErr = "nil"
    /\ plMutations = 0
    /\ plMutClosed = FALSE
    /\ plCollector = "run"
    /\ plCollected = 0
    /\ plMonitor = "run"
    /\ plCtxDone = FALSE
    /\ plRet = ""

\* GetChannel and getChangedSourcesChannel without cache: a source is passed
\* on, or the stages end and close their channels, with an error or without.
\* The context is context.Background(), so no stage sees ctx.Done().
PipeUpstream ==
    /\ ~plSourcesClosed
    /\ \/ /\ plUpLeft > 0
          /\ plSources < EstimateThreads
          /\ plUpLeft' = plUpLeft - 1
          /\ plSources' = plSources + 1
          /\ UNCHANGED <<plSourcesClosed, plUpErr>>
       \/ /\ \E failed \in BOOLEAN :
                /\ failed \/ plUpLeft = 0
                /\ plUpErr' = IF failed THEN "err" ELSE "closed"
          /\ plSourcesClosed' = TRUE
          /\ UNCHANGED <<plUpLeft, plSources>>
    /\ UNCHANGED <<plGenErr, plMerged, plCh1Nil, plCh2Nil, plDispatch, plWorker, plToSend,
                   plGroupErr, plMutations, plMutClosed, plCollector, plCollected,
                   plMonitor, plCtxDone, plRet, othersOfPipe>>

\* the goroutine of mergeErrorChannels has returned
MergeDone == plMerged # "open"

\* the goroutine of mergeErrorChannels(upstream errors, mutationsErrorChannel):
\* the first error received is sent on and the goroutine returns; a closed
\* channel is set to nil; merged is closed when the goroutine returns
PipeMergeErrors ==
    /\ ~MergeDone
    /\ \/ /\ ~plCh1Nil
          /\ plUpErr # "open"
          /\ plUpErr' = "closed"
          /\ plCh1Nil' = (plUpErr = "closed")
          /\ plMerged' = IF plUpErr = "err" THEN "err"
                         ELSE IF plCh2Nil THEN "closed" ELSE "open"
          /\ UNCHANGED <<plGenErr, plCh2Nil>>
       \/ /\ ~plCh2Nil
          /\ plGenErr # "open"
          /\ plGenErr' = "closed"
          /\ plCh2Nil' = (plGenErr = "closed")
          /\ plMerged' = IF plGenErr = "err" THEN "err"
                         ELSE IF plCh1Nil THEN "closed" ELSE "open"
          /\ UNCHANGED <<plUpErr, plCh1Nil>>
    /\ UNCHANGED <<plUpLeft, plSources, plSourcesClosed, plDispatch, plWorker, plToSend,
                   plGroupErr, plMutations, plMutClosed, plCollector, plCollected,
                   plMonitor, plCtxDone, plRet, othersOfPipe>>

\* the goroutine of generateMutationsChannel: it receives a source and hands
\* it to group.Go, which waits for a free slot; when sourcesChannel is closed
\* it waits for the workers, closes mutationsChannel, sends the group's error
\* and closes errorChannel
PipeDispatcher ==
    /\ \/ /\ plDispatch = "select"
          /\ plSources > 0
          /\ plSources' = plSources - 1
          /\ plDispatch' = "go"
          /\ UNCHANGED <<plWorker, plMutClosed, plGenErr>>
       \/ /\ plDispatch = "go"
          /\ plWorker = "idle"
          /\ plWorker' = "generate"
          /\ plDispatch' = "select"
          /\ UNCHANGED <<plSources, plMutClosed, plGenErr>>
       \/ /\ plDispatch = "select"
          /\ plSources = 0
          /\ plSourcesClosed
          /\ plDispatch' = "wait"
          /\ UNCHANGED <<plSources, plWorker, plMutClosed, plGenErr>>
       \/ /\ plDispatch = "wait"
          /\ plWorker = "idle"
          /\ plMutClosed' = TRUE
          /\ plGenErr' = IF plGroupErr # "nil" THEN "err" ELSE "closed"
          /\ plDispatch' = "done"
          /\ UNCHANGED <<plSources, plWorker>>
    /\ UNCHANGED <<plUpLeft, plSourcesClosed, plUpErr, plMerged, plCh1Nil, plCh2Nil,
                   plToSend, plGroupErr, plMutations, plCollector, plCollected,
                   plMonitor, plCtxDone, plRet, othersOfPipe>>

\* the function handed to group.Go: GenerateMutation, then one send per
\* mutation on mutationsChannel; the send waits for room in the channel
PipeWorker ==
    /\ \/ /\ plWorker = "generate"
          /\ \E failed \in BOOLEAN, n \in 0..MaxPipeMutations :
                IF failed
                THEN /\ n = 0
                     /\ plGroupErr' = "generate mutations for source"
                     /\ plWorker' = "idle"
                     /\ UNCHANGED plToSend
                ELSE /\ plToSend' = n
                     /\ plWorker' = IF n = 0 THEN "idle" ELSE "send"
                     /\ UNCHANGED plGroupErr
          /\ UNCHANGED plMutations
       \/ /\ plWorker = "send"
          /\ plMutations < EstimateThreads
          /\ plMutations' = plMutations + 1
          /\ plToSend' = plToSend - 1
          /\ plWorker' = IF plToSend = 1 THEN "idle" ELSE "send"
          /\ UNCHANGED plGroupErr
    /\ UNCHANGED <<plUpLeft, plSources, plSourcesClosed, plUpErr, plGenErr, plMerged,
                   plCh1Nil, plCh2Nil, plDispatch, plMutClosed, plCollector, plCollected,
                   plMonitor, plCtxDone, plRet, othersOfPipe>>

\* the collecting goroutine of collectMutations: it appends what it receives,
\* returns nil when mutationsChannel is closed and groupCtx.Err() when
\* groupCtx is done
PipeCollector ==
    /\ plCollector = "run"
    /\ \/ /\ plMutations > 0
          /\ plMutations' = plMutations - 1
          /\ plCollected' = plCollected + 1
          /\ UNCHANGED plCollector
       \/ /\ plMutations = 0
          /\ plMutClosed
          /\ plCollector' = "nil"
          /\ UNCHANGED <<plMutations, plCollected>>
       \/ /\ plCtxDone
          /\ plCollector' = "cancelled"
          /\ UNCHANGED <<plMutations, plCollected>>
    /\ UNCHANGED <<plUpLeft, plSources, plSourcesClosed, plUpErr, plGenErr, plMerged,
                   plCh1Nil, plCh2Nil, plDispatch, plWorker, plToSend, plGroupErr,
                   plMutClosed, plMonitor, plCtxDone, plRet, othersOfPipe>>

\* the monitoring goroutine of collectMutations: one receive from the merged
\* error channel; an error it returns cancels groupCtx. Nothing else cancels
\* groupCtx before group.Wait returns, so its own ctx.Done() case is never
\* taken.
PipeMonitor ==
    /\ plMonitor = "run"
    /\ plMerged # "open"
    /\ plMonitor' = IF plMerged = "err" THEN "err" ELSE "nil"
    /\ plCtxDone' = (plMerged = "err")
    /\ plMerged' = "closed"
    /\ UNCHANGED <<plUpLeft, plSources, plSourcesClosed, plUpErr, plGenErr, plCh1Nil,
                   plCh2Nil, plDispatch, plWorker, plToSend, plGroupErr, plMutations,
                   plMutClosed, plCollector, plCollected, plRet, othersOfPipe>>

\* group.Wait() and the return of collectMutations
PipeReturn ==
    /\ plRet = ""
    /\ plCollector # "run"
    /\ plMonitor # "run"
    /\ plRet' = IF plMonitor = "err" THEN "err" ELSE "nil"
    /\ UNCHANGED <<plUpLeft, plSources, plSourcesClosed, plUpErr, plGenErr, plMerged,
                   plCh1Nil, plCh2Nil, plDispatch, plWorker, plToSend, plGroupErr,
                   plMutations, plMutClosed, plCollector, plCollected, plMonitor,
                   plCtxDone, othersOfPipe>>

NextPipe ==
    \/ PipeUpstream
    \/ PipeMergeErrors
    \/ PipeDispatcher
    \/ PipeWorker
    \/ PipeCollector
    \/ PipeMonitor
    \/ PipeReturn

SpecPipe == InitPipe /\ [][NextPipe]_vars

SpecPipeFair == SpecPipe /\ WF_vars(NextPipe)

\* C40: Pipeline goroutines terminate. Once collectMutations has returned,
\* with a result or with an error, the goroutine of generateMutationsChannel
\* and its workers come to an end and mutationsChannel and errorChannel are
\* closed.
C40_PipelineTerminates ==
    (plRet # "") ~> (/\ plDispatch = "done"
                     /\ plWorker = "idle"
                     /\ plMutClosed
                     /\ plGenErr # "open")

\* ------------------------------------------------------------------ SpecBranch
\* functions of a source; each holds one branch statement
MaxFuncs == 2

\* bytes of filler before the first function and between two functions
MaxGap == 1

\* bytes of filler between two functions in SpecBranchFar
MaxFarGap == 1000

\* the statements: if a{}   if a{}else{}   for a{}   switch{case a:b()}
Kinds == {"if", "ifelse", "for", "switch"}

\* bytes of a statement as written above
StmtLen(kind) ==
    CASE kind = "if" -> 6
      [] kind = "ifelse" -> 12
      [] kind = "for" -> 7
      [] kind = "switch" -> 18

\* byte offset of the statement of function k: the file starts with
\* "package p\n" and the filler; a function is "func f(){\n", its statement and
\* "}\n", followed by the filler
RECURSIVE StmtOffset(_, _, _)
StmtOffset(kinds, gap, k) ==
    IF k = 1
    THEN 10 + gap + 10
    ELSE StmtOffset(kinds, gap, k - 1) + StmtLen(kinds[k - 1]) + 2 + gap + 10

\* the file is on line 1, function k on line 2k and its statement on line 2k+1
FuncLine(k) == 2 * k
StmtLine(k) == 2 * k + 1

InitBranchWith(gaps, directives) ==
    /\ ShardIdle
    /\ OrchIdle
    /\ TestIdle
    /\ ScoreIdle
    /\ MutagenIdle
    /\ FilterIdle
    /\ CacheIdle
    /\ MergeIdle
    /\ SpillIdle
    /\ FlagIdle
    /\ TuiIdle
    /\ UiIdle
    /\ PipeIdle
    /\ \E nf \in 1..MaxFuncs :
        \E kinds \in [1..nf -> Kinds], gap \in gaps :
            \E fileIgnored \in directives,
               funcIgnored \in SUBSET (IF TRUE \in directives THEN 1..nf ELSE {}),
               lineIgnored \in SUBSET (IF TRUE \in directives THEN 2..StmtLine(nf) ELSE {}) :
                brSource = [funcs |-> [k \in 1..nf |->
                                        [kind |-> kinds[k],
                                         at |-> StmtOffset(kinds, gap, k)]],
                            fileIgnored |-> fileIgnored,
                            funcIgnored |-> funcIgnored,
                            lineIgnored |-> lineIgnored]
    /\ brPc = "parsed"
    /\ brOut = <<>>

InitBranch == InitBranchWith(0..MaxGap, BOOLEAN)

InitBranchFar == InitBranchWith(0..MaxFarGap, {FALSE})

\* the ID of a branch mutation: the hash of the path, the type name and the
\* anchor; within one source two IDs are equal when the anchors are
BranchID(anchor) == <<"branch", anchor>>

\* createConditionMutation, createIfRemovalMutation and the ends of
\* removeElseBlock and removeCaseBody
BranchMutation(k, variant, anchor) ==
    [id |-> BranchID(anchor), fn |-> k, line |-> StmtLine(k), variant |-> variant]

\* invertCondition for the condition at offset
InvertCondition(k, offset) ==
    <<BranchMutation(k, "invert", offset),
      BranchMutation(k, "true", offset + 1),
      BranchMutation(k, "false", offset + 2)>>

\* mutateIfStatement, the ForStmt case and mutateSwitchStatement for the
\* statement of function k
MutateStmt(src, k) ==
    LET s == src.funcs[k] IN
    CASE s.kind = "if" ->
            InvertCondition(k, s.at + 3)
            \o <<BranchMutation(k, "removeIf", s.at + 1000)>>
      [] s.kind = "ifelse" ->
            InvertCondition(k, s.at + 3)
            \o <<BranchMutation(k, "removeIf", s.at + 1000),
                 BranchMutation(k, "removeElse", s.at + 10 + 2000)>>
      [] s.kind = "for" -> InvertCondition(k, s.at + 4)
      [] s.kind = "switch" -> <<BranchMutation(k, "removeCase", s.at + 13 + 3000)>>

\* the nodes ast.Inspect visits that have a branch statement below them, in
\* its order: the file, then of each function the declaration, its body and
\* the statement
RECURSIVE Nodes(_, _)
Nodes(src, k) ==
    IF k > Len(src.funcs) THEN <<>>
    ELSE <<[type |-> "FuncDecl", fn |-> k, line |-> FuncLine(k)],
           [type |-> "BlockStmt", fn |-> k, line |-> FuncLine(k)],
           [type |-> "Stmt", fn |-> k, line |-> StmtLine(k)]>> \o Nodes(src, k + 1)

FileNodes(src) == <<[type |-> "File", fn |-> 0, line |-> 1]>> \o Nodes(src, 1)

\* GenerateBranchMutations(n): ast.Inspect over n and everything below it
RECURSIVE GenerateBranchMutations(_, _, _)
GenerateBranchMutations(src, n, k) ==
    IF k > Len(src.funcs) THEN <<>>
    ELSE (IF n.type = "File" \/ n.fn = k THEN MutateStmt(src, k) ELSE <<>>)
         \o GenerateBranchMutations(src, n, k + 1)

\* the ast.Inspect of collectMutations from the i-th node on: a function with
\* a matching directive is not entered, a node on a line with a matching
\* directive is passed over, every other node is handed to the generator
RECURSIVE Inspect(_, _)
Inspect(src, i) ==
    LET nodes == FileNodes(src) IN
    IF i > Len(nodes) THEN <<>>
    ELSE IF nodes[i].fn \in src.funcIgnored \/ nodes[i].line \in src.lineIgnored
         THEN Inspect(src, i + 1)
         ELSE GenerateBranchMutations(src, nodes[i], 1) \o Inspect(src, i + 1)

\* collectMutations(MutationBranch, file, ...)
CollectMutations ==
    /\ brPc = "parsed"
    /\ brOut' = IF brSource.fileIgnored THEN <<>> ELSE Inspect(brSource, 1)
    /\ brPc' = "done"
    /\ UNCHANGED <<brSource, othersOfBranch>>

NextBranch == CollectMutations

SpecBranch == InitBranch /\ [][NextBranch]_vars

SpecBranchFar == InitBranchFar /\ [][NextBranch]_vars

\* C31: Mutation ID uniqueness. Among the mutations emitted for one source no
\* two share an ID: no (node, variant) pair is emitted twice and no two pairs
\* have the same key.
C31_MutationIDUnique ==
    \A i, j \in 1..Len(brOut) : i # j => brOut[i].id # brOut[j].id

\* C32: Ignore respect. No branch mutation is emitted for a statement in an
\* ignored file, inside an ignored function or on an ignored line.
C32_IgnoreRespect ==
    \A i \in 1..Len(brOut) :
        /\ ~brSource.fileIgnored
        /\ brOut[i].fn \notin brSource.funcIgnored
        /\ brOut[i].line \notin brSource.lineIgnored

====
